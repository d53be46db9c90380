-------------------------- MODULE TxTimestampProofs --------------------------
(***************************************************************************)
(* Proofs about TxTimestamp, for any subscriptions, any width of sequence  *)
(* numbers, any number of attempts, packets and waiting requests.          *)
(***************************************************************************)
EXTENDS TxTimestamp, SequenceTheorems, FiniteSetTheorems, WellFoundedInduction, TLAPS

Sending == wk.pc # "idle"
OnWire == wk.pc \in {"read", "follow"}

(***************************************************************************)
(* The two packets of c are stored: no handler is between its stores, and  *)
(* the last one to finish had met no other.                                *)
(***************************************************************************)
Settled(c) == Asking(c) = {} /\ c \notin torn

(***************************************************************************)
(* The packets of an sptp subscription have one number once they are       *)
(* stored; a handler that met no other is alone with its subscription, and *)
(* its number is still the one in the Sync.                                *)
(***************************************************************************)
AskInv ==
    /\ \A h \in Handler :
        /\ asking[h].c = None => asking[h] = NoRequest
        /\ asking[h].c # None => Kind[asking[h].c] = DelayReq
        /\ asking[h].c # None /\ h \notin mixed =>
            /\ asking[h].seq = syncP[asking[h].c]
            /\ \A g \in Handler : g # h => asking[g].c # asking[h].c
    /\ \A c \in Client :
        Kind[c] = DelayReq /\ Settled(c) => announceP[c] = syncP[c]

(***************************************************************************)
(* The number in the worker's buffer is the number of the packets it will  *)
(* read again, unless a handler stored another one; and a software socket  *)
(* sends only once its kernel counts as an older one.                      *)
(***************************************************************************)
WorkInv ==
    /\ ~ Sending => wk.c = None /\ wk.txfound = 0
    /\ Sending => wk.c \in Client /\ Kind[wk.c] \in {Sync, DelayReq}
    /\ wk.pc = "send" => wk.txfound = 0 /\ Len(sent) < MaxPackets
    /\ Sending /\ Kind[wk.c] = Sync =>
           wk.seq = sequenceID[wk.c] /\ wk.seq = syncP[wk.c]
    /\ Sending /\ Kind[wk.c] = DelayReq /\ ~ wk.overlap =>
           wk.seq = syncP[wk.c] /\ Settled(wk.c)
    /\ OnWire => /\ wk.pkt = Len(sent) /\ wk.pkt > 0
                 /\ sent[wk.pkt].seq = wk.seq
                 /\ Kind[wk.c] = Sync \/ ~ wk.overlap => sent[wk.pkt].id = wk.seq
                 /\ olderKernel \/ timestampType = HW
    /\ wk.pc = "read" /\ ~ olderKernel => wk.txfound = 0
    /\ wk.pc = "follow" =>
           wk.txfound # 0 /\ (~ olderKernel => sent[wk.txfound].id = sent[wk.pkt].id)

(***************************************************************************)
(* A timestamp is at one place only: on its way, in the error queue once,  *)
(* with the worker, or in one second packet.  Its packet was sent.         *)
(***************************************************************************)
StampInv ==
    /\ Len(sent) <= MaxPackets
    /\ \A p \in inflight : p <= Len(sent)
    /\ wk.txfound <= Len(sent) /\ wk.txfound \notin inflight
    /\ \A i \in 1 .. Len(errqueue) :
        /\ errqueue[i] <= Len(sent) /\ errqueue[i] \notin inflight
        /\ errqueue[i] # wk.txfound
        /\ \A j \in 1 .. Len(errqueue) : errqueue[i] = errqueue[j] => i = j
    /\ \A i \in 1 .. Len(follows) :
        /\ follows[i].ts <= follows[i].pkt /\ follows[i].pkt <= Len(sent)
        /\ follows[i].ts \notin inflight /\ follows[i].ts # wk.txfound
        /\ \A j \in 1 .. Len(errqueue) : follows[i].ts # errqueue[j]
        /\ \A j \in 1 .. Len(follows) : follows[i].ts = follows[j].ts => i = j

(***************************************************************************)
(* The number of a subscription is that of its next Follow_Up.             *)
(***************************************************************************)
SequenceInv ==
    \A c \in Client : Kind[c] = Sync =>
        \/ Follows(c) = {} /\ sequenceID[c] = 0
        \/ \E i \in Follows(c) :
               /\ \A j \in Follows(c) : j <= i
               /\ sequenceID[c] = (follows[i].seq + 1) % SeqMod

PairInv == OneSequenceNumber /\ AnswerPaired /\ PTPTime

IInv ==
    /\ TypeOK /\ AskInv /\ WorkInv /\ StampInv
    /\ SequenceInv /\ FollowUpsConsecutive /\ PairInv

-----------------------------------------------------------------------------
(***************************************************************************)
(* Sequences: what Append and Tail leave in place.                         *)
(***************************************************************************)
LEMMA AppendAt ==
    ASSUME NEW S, NEW s \in Seq(S), NEW e \in S
    PROVE  /\ Append(s, e) \in Seq(S) /\ Len(Append(s, e)) = Len(s) + 1
           /\ Len(s) \in Nat
           /\ \A i \in 1 .. Len(s) : Append(s, e)[i] = s[i]
           /\ Append(s, e)[Len(s) + 1] = e
BY AppendProperties, LenProperties

\* Taking the head of a queue.
LEMMA TailAt ==
    ASSUME NEW S, NEW s \in Seq(S), s # << >>
    PROVE  /\ Tail(s) \in Seq(S) /\ Len(s) \in Nat /\ Len(s) > 0
           /\ Len(Tail(s)) = Len(s) - 1
           /\ Head(s) \in S /\ Head(s) = s[1]
           /\ \A i \in 1 .. Len(s) - 1 : Tail(s)[i] = s[i + 1]
BY HeadTailProperties, LenProperties, EmptySeq

\* The constants, and sequence numbers wrap within their width.
LEMMA Constants ==
    /\ SeqMod \in Nat \ {0} /\ AttemptsTXTS \in Nat /\ MaxPackets \in Nat /\ MaxAsked \in Nat
    /\ Kind \in [Client -> {Sync, Announce, DelayResp, DelayReq}]
    /\ None \notin Client /\ None \notin SeqID
    /\ 0 \in SeqID /\ SeqID \subseteq Nat
    /\ \A q \in SeqID : (q + 1) % SeqMod \in SeqID
BY TxAssumption DEF SeqID

\* The message types differ.
LEMMA Kinds == Sync # DelayReq /\ Sync # Announce /\ Sync # DelayResp
               /\ DelayReq # Announce /\ DelayReq # DelayResp
BY DEF Sync, Announce, DelayResp, DelayReq

\* The worker between two messages.
LEMMA IdleTyped ==
    /\ IdleWorker \in WorkerRecord /\ IdleWorker.pc = "idle" /\ IdleWorker.c = None
    /\ IdleWorker.txfound = 0
BY Constants DEF IdleWorker, WorkerRecord

\* Lengths are numbers.
LEMMA Lengths ==
    ASSUME TypeOK
    PROVE  Len(sent) \in Nat /\ Len(errqueue) \in Nat /\ Len(follows) \in Nat
BY LenProperties DEF TypeOK

\* Elements of the queues are of their types; a packet's number is not 0.
LEMMA Elements ==
    ASSUME TypeOK
    PROVE  /\ \A i \in 1 .. Len(errqueue) : errqueue[i] \in Packet
           /\ \A i \in 1 .. Len(follows) : follows[i] \in FollowRecord
           /\ \A p \in 1 .. Len(sent) : sent[p] \in SentRecord
           /\ \A p \in Packet : p \in Nat /\ p > 0
           /\ \A i \in 1 .. Len(follows) :
                  /\ follows[i].ts \in Packet /\ follows[i].pkt \in Packet
                  /\ follows[i].c \in Client /\ follows[i].seq \in SeqID
<1>1. \A i \in 1 .. Len(errqueue) : errqueue[i] \in Packet
  BY ElementOfSeq DEF TypeOK
<1>2. \A i \in 1 .. Len(follows) : follows[i] \in FollowRecord
  BY ElementOfSeq DEF TypeOK
<1>3. \A p \in 1 .. Len(sent) : sent[p] \in SentRecord
  BY ElementOfSeq DEF TypeOK
<1>4. \A p \in Packet : p \in Nat /\ p > 0
  BY Constants DEF Packet
<1> QED BY <1>1, <1>2, <1>3, <1>4 DEF FollowRecord

-----------------------------------------------------------------------------
(***************************************************************************)
(* Frames: what keeps each part of the invariant.                          *)
(***************************************************************************)
LEMMA SequenceUnchanged ==
    ASSUME SequenceInv, FollowUpsConsecutive, UNCHANGED follows,
           \A c \in Client : Kind[c] = Sync => sequenceID'[c] = sequenceID[c]
    PROVE  SequenceInv' /\ FollowUpsConsecutive'
BY DEF SequenceInv, FollowUpsConsecutive, Follows

\* What second packets say stays true as long as no packet is added.
LEMMA PairUnchanged ==
    ASSUME PairInv, UNCHANGED <<follows, sent, timestampType>>, olderKernel => olderKernel'
    PROVE  PairInv'
BY DEF PairInv, OneSequenceNumber, AnswerPaired, PTPTime

\* Timestamps stay at one place when the worker lets go of one, at most.
LEMMA StampUnchanged ==
    ASSUME StampInv, TypeOK, UNCHANGED <<follows, sent, inflight, errqueue>>,
           wk'.txfound \in {0, wk.txfound}
    PROVE  StampInv'
<1>1. /\ 0 \notin inflight
      /\ \A i \in 1 .. Len(errqueue) : errqueue[i] # 0
      /\ \A i \in 1 .. Len(follows) : follows[i].ts # 0
  <2>1. 0 \notin Packet /\ inflight \subseteq Packet
    BY DEF TypeOK, Packet
  <2> QED BY <2>1, Elements
<1>2. Len(sent) \in Nat
  BY Lengths
<1> QED BY <1>1, <1>2 DEF StampInv

-----------------------------------------------------------------------------
(***************************************************************************)
(* The state starts out right.                                             *)
(***************************************************************************)
LEMMA InitSafe == Init => IInv
<1> SUFFICES ASSUME Init PROVE IInv
  OBVIOUS
<1> USE DEF Init
<1>1. TypeOK
  <2>1. << >> \in Seq(SentRecord) /\ << >> \in Seq(Packet) /\ << >> \in Seq(FollowRecord)
    BY EmptySeq
  <2>2. /\ sequenceID \in [Client -> SeqID] /\ syncP \in [Client -> SeqID]
        /\ announceP \in [Client -> SeqID] /\ asked \in [Client -> Nat]
        /\ asking \in [Handler -> [c : Client \cup {None}, seq : SeqID]]
    BY Constants DEF NoRequest
  <2> QED BY <2>1, <2>2, IdleTyped DEF TypeOK
<1>2. AskInv
  BY Constants DEF AskInv, NoRequest
<1>3. WorkInv
  BY IdleTyped DEF WorkInv, Sending, OnWire
<1>4. Len(sent) = 0 /\ Len(errqueue) = 0 /\ Len(follows) = 0
  BY EmptySeq
<1>5. StampInv
  BY <1>4, IdleTyped, Constants DEF StampInv
<1>6. SequenceInv /\ FollowUpsConsecutive
  BY <1>4 DEF SequenceInv, FollowUpsConsecutive, Follows
<1>7. PairInv
  BY <1>4 DEF PairInv, OneSequenceNumber, AnswerPaired, PTPTime
<1> QED BY <1>1, <1>2, <1>3, <1>5, <1>6, <1>7 DEF IInv

(***************************************************************************)
(* An event handler's first store: a request that comes while the worker   *)
(* answers the client is an overlap.                                       *)
(***************************************************************************)
LEMMA UpdateSyncSafe ==
    ASSUME IInv, NEW h \in Handler, NEW c \in Client, NEW q \in SeqID,
           UpdateSyncDelayReq(h, c, q)
    PROVE  IInv'
<1> USE DEF IInv
<1>1. /\ Kind[c] = DelayReq /\ asking[h] = NoRequest
      /\ syncP' = [syncP EXCEPT ![c] = q]
      /\ asking' = [asking EXCEPT ![h] = [c |-> c, seq |-> q]]
      /\ mixed' = IF Asking(c) = {} THEN mixed ELSE mixed \cup Asking(c) \cup {h}
      /\ wk' = [wk EXCEPT !.overlap = @ \/ wk.c = c]
      /\ UNCHANGED <<sequenceID, announceP, asked, torn, olderKernel, timestampType,
                     newKernel, sent, inflight, errqueue, follows>>
  BY DEF UpdateSyncDelayReq, kernelVars, setupVars
<1>2. /\ wk' \in WorkerRecord /\ wk'.pc = wk.pc /\ wk'.c = wk.c /\ wk'.seq = wk.seq
      /\ wk'.pkt = wk.pkt /\ wk'.txfound = wk.txfound
      /\ wk'.overlap = (wk.overlap \/ wk.c = c)
  BY <1>1 DEF TypeOK, WorkerRecord
<1>3. /\ syncP' \in [Client -> SeqID] /\ syncP'[c] = q
      /\ \A d \in Client : d # c => syncP'[d] = syncP[d]
  BY <1>1 DEF TypeOK
<1>4. /\ asking' \in [Handler -> [c : Client \cup {None}, seq : SeqID]]
      /\ asking'[h].c = c /\ asking'[h].seq = q /\ asking[h].c = None
      /\ \A g \in Handler : g # h => asking'[g] = asking[g]
  BY <1>1 DEF TypeOK, NoRequest
<1>5. TypeOK'
  <2>1. mixed' \subseteq Handler
    BY <1>1 DEF TypeOK, Asking
  <2> QED BY <1>1, <1>2, <1>3, <1>4, <2>1 DEF TypeOK
<1>6. c # None /\ \A d \in Client : d # None
  BY Constants
<1>7. /\ ~ Settled(c)'
      /\ \A d \in Client : d # c => (Settled(d)' <=> Settled(d))
  BY <1>1, <1>4, <1>6 DEF Settled, Asking
<1>8. AskInv'
  <2>1. ASSUME NEW g \in Handler
        PROVE  /\ asking'[g].c = None => asking'[g] = NoRequest
               /\ asking'[g].c # None => Kind[asking'[g].c] = DelayReq
    BY <1>1, <1>4, <1>6, <2>1 DEF AskInv
  <2>2. ASSUME NEW g \in Handler, asking'[g].c # None, g \notin mixed'
        PROVE  /\ asking'[g].seq = syncP'[asking'[g].c]
               /\ \A k \in Handler : k # g => asking'[k].c # asking'[g].c
    <3>1. CASE g = h
      <4>1. Asking(c) = {}
        BY <1>1, <2>2, <3>1
      <4> QED BY <1>3, <1>4, <3>1, <4>1 DEF Asking
    <3>2. CASE g # h
      <4>1. asking'[g] = asking[g] /\ asking[g].c \in Client /\ g \notin mixed
        BY <1>1, <1>4, <2>2, <3>2 DEF TypeOK
      <4>2. asking[g].c # c
        BY <1>1, <2>2, <4>1 DEF Asking
      <4>3. /\ asking[g].seq = syncP[asking[g].c]
            /\ \A k \in Handler : k # g => asking[k].c # asking[g].c
        BY <1>4, <2>2, <4>1 DEF AskInv
      <4>4. \A k \in Handler : k # g => asking'[k].c # asking'[g].c
        BY <1>4, <4>1, <4>2, <4>3
      <4> QED BY <1>3, <4>1, <4>2, <4>3, <4>4
    <3> QED BY <3>1, <3>2
  <2>3. \A d \in Client : Kind[d] = DelayReq /\ Settled(d)' => announceP'[d] = syncP'[d]
    BY <1>1, <1>3, <1>7 DEF AskInv
  <2> HIDE DEF IInv
  <2> QED BY <2>1, <2>2, <2>3 DEF AskInv
<1>9. WorkInv'
  <2>1. CASE wk.c = c
    <3>1. wk'.overlap = TRUE /\ Kind[wk.c] # Sync
      BY <1>1, <1>2, <2>1, Kinds
    <3> QED BY <1>1, <1>2, <2>1, <3>1, Kinds DEF WorkInv, Sending, OnWire
  <2>2. CASE wk.c # c
    <3>1. wk' = wk
      BY <1>1, <2>2 DEF TypeOK, WorkerRecord
    <3>2. wk.c \in Client => syncP'[wk.c] = syncP[wk.c] /\ (Settled(wk.c)' <=> Settled(wk.c))
      BY <1>3, <1>7, <2>2, <3>1
    <3> QED BY <1>1, <3>1, <3>2 DEF WorkInv, Sending, OnWire
  <2> QED BY <2>1, <2>2
<1> QED BY <1>1, <1>2, <1>5, <1>8, <1>9, StampUnchanged, SequenceUnchanged, PairUnchanged

(***************************************************************************)
(* The second store, and the request goes into the queue.  A handler that  *)
(* met no other leaves two packets with one number.                        *)
(***************************************************************************)
LEMMA UpdateAnnounceSafe ==
    ASSUME IInv, NEW h \in Handler, UpdateAnnounceDelayReq(h)
    PROVE  IInv'
<1> DEFINE c == asking[h].c
           q == asking[h].seq
<1> USE DEF IInv
<1>1. /\ asking[h] # NoRequest
      /\ announceP' = [announceP EXCEPT ![c] = q]
      /\ asking' = [asking EXCEPT ![h] = NoRequest]
      /\ mixed' = mixed \ {h}
      /\ torn' = IF h \in mixed THEN torn \cup {c} ELSE torn \ {c}
      /\ asked' = [asked EXCEPT ![c] = @ + 1]
      /\ UNCHANGED <<sequenceID, syncP, wk, olderKernel, timestampType, newKernel,
                     sent, inflight, errqueue, follows>>
  BY DEF UpdateAnnounceDelayReq, Asked, kernelVars, setupVars
<1>2. c \in Client /\ q \in SeqID /\ c # None
  <2>1. c # None
    BY <1>1 DEF AskInv
  <2> QED BY <2>1 DEF TypeOK
<1>3. /\ announceP' \in [Client -> SeqID] /\ asked' \in [Client -> Nat]
      /\ asking' \in [Handler -> [c : Client \cup {None}, seq : SeqID]]
      /\ mixed' \subseteq Handler /\ torn' \subseteq Client
  <2>1. asked[c] + 1 \in Nat
    BY <1>2 DEF TypeOK
  <2>2. NoRequest \in [c : Client \cup {None}, seq : SeqID]
    BY Constants DEF NoRequest
  <2>3. announceP' \in [Client -> SeqID] /\ torn' \subseteq Client
    BY <1>1, <1>2 DEF TypeOK
  <2>4. asked' \in [Client -> Nat]
    BY <1>1, <2>1 DEF TypeOK
  <2>5. asking' \in [Handler -> [c : Client \cup {None}, seq : SeqID]]
    BY <1>1, <2>2 DEF TypeOK
  <2> QED BY <1>1, <2>3, <2>4, <2>5 DEF TypeOK
<1>4. /\ announceP'[c] = q /\ asking'[h] = NoRequest /\ asking'[h].c = None
      /\ \A d \in Client : d # c => announceP'[d] = announceP[d]
      /\ \A g \in Handler : g # h => asking'[g] = asking[g]
  BY <1>1, <1>2 DEF TypeOK, NoRequest
<1> HIDE DEF c, q
<1>5. TypeOK'
  BY <1>1, <1>3 DEF TypeOK
<1>6. ASSUME NEW d \in Client, d # c
      PROVE  Settled(d)' <=> Settled(d)
  <2>1. d \in torn' <=> d \in torn
    BY <1>1, <1>6
  <2>2. d # None /\ asking[h].c # d
    BY <1>6, Constants DEF c
  <2>3. Asking(d)' = Asking(d)
    BY <1>4, <2>2 DEF Asking
  <2> QED BY <2>1, <2>3 DEF Settled
<1>7. AskInv'
  <2>1. ASSUME NEW g \in Handler
        PROVE  /\ asking'[g].c = None => asking'[g] = NoRequest
               /\ asking'[g].c # None => Kind[asking'[g].c] = DelayReq
    BY <1>4 DEF AskInv
  <2>2. ASSUME NEW g \in Handler, asking'[g].c # None, g \notin mixed'
        PROVE  /\ asking'[g].seq = syncP'[asking'[g].c]
               /\ \A k \in Handler : k # g => asking'[k].c # asking'[g].c
    <3>1. g # h /\ asking'[g] = asking[g] /\ g \notin mixed
      BY <1>1, <1>4, <2>2
    <3>2. /\ asking[g].seq = syncP[asking[g].c]
          /\ \A k \in Handler : k # g => asking[k].c # asking[g].c
      BY <2>2, <3>1 DEF AskInv
    <3> QED BY <1>1, <1>4, <2>2, <3>1, <3>2
  <2>3. ASSUME NEW d \in Client, Kind[d] = DelayReq, Settled(d)'
        PROVE  announceP'[d] = syncP'[d]
    <3>1. CASE d # c
      BY <1>1, <1>4, <1>6, <2>3, <3>1 DEF AskInv
    <3>2. CASE d = c
      <4>1. h \notin mixed
        BY <1>1, <2>3, <3>2 DEF Settled
      <4>2. q = syncP[c]
        BY <1>2, <4>1 DEF AskInv, c, q
      <4> QED BY <1>1, <1>4, <3>2, <4>2
    <3> QED BY <3>1, <3>2
  <2> HIDE DEF IInv
  <2> QED BY <2>1, <2>2, <2>3 DEF AskInv
<1>8. ~ Settled(c)
  BY DEF Settled, Asking, c
<1>9. WorkInv'
  <2>1. wk.c \in Client /\ Settled(wk.c) => Settled(wk.c)'
    BY <1>1, <1>6, <1>8
  <2> QED BY <1>1, <2>1 DEF WorkInv, Sending, OnWire
<1> QED BY <1>1, <1>5, <1>7, <1>9, StampUnchanged, SequenceUnchanged, PairUnchanged

-----------------------------------------------------------------------------
(***************************************************************************)
(* Announce and DelayResp subscriptions only count.                        *)
(***************************************************************************)
LEMMA SendGeneralSafe ==
    ASSUME IInv, NEW c \in Client, SendGeneral(c)
    PROVE  IInv'
<1> USE DEF IInv
<1>1. /\ Kind[c] \in {Announce, DelayResp} /\ wk.pc = "idle"
      /\ sequenceID' = [sequenceID EXCEPT ![c] = (@ + 1) % SeqMod]
      /\ UNCHANGED <<syncP, announceP, asked, asking, mixed, torn, wk, olderKernel, timestampType,
                     newKernel, sent, inflight, errqueue, follows>>
  BY DEF SendGeneral, IncSequenceID, askVars, kernelVars, setupVars
<1>2. sequenceID' \in [Client -> SeqID]
  BY <1>1, Constants DEF TypeOK
<1>3. \A d \in Client : Kind[d] = Sync => sequenceID'[d] = sequenceID[d]
  BY <1>1, Kinds DEF TypeOK
<1>4. TypeOK'
  BY <1>1, <1>2 DEF TypeOK
<1>5. AskInv' /\ WorkInv'
  BY <1>1 DEF AskInv, WorkInv, Settled, Asking, Sending, OnWire
<1> QED BY <1>1, <1>3, <1>4, <1>5, StampUnchanged, SequenceUnchanged, PairUnchanged

(***************************************************************************)
(* The worker takes a message: its buffer and the packet agree.            *)
(***************************************************************************)
LEMMA UpdateSyncMessageSafe ==
    ASSUME IInv, NEW c \in Client, UpdateSync(c)
    PROVE  IInv'
<1> USE DEF IInv
<1>1. /\ wk.pc = "idle" /\ Kind[c] = Sync /\ Len(sent) < MaxPackets
      /\ syncP' = [syncP EXCEPT ![c] = sequenceID[c]]
      /\ wk' = [IdleWorker EXCEPT !.pc = "send", !.c = c, !.seq = sequenceID[c]]
      /\ UNCHANGED <<sequenceID, announceP, asked, asking, mixed, torn, olderKernel, timestampType,
                     newKernel, sent, inflight, errqueue, follows>>
  BY DEF UpdateSync, askVars, kernelVars, setupVars
<1>2. /\ wk' \in WorkerRecord /\ wk'.pc = "send" /\ wk'.c = c /\ wk'.seq = sequenceID[c]
      /\ wk'.txfound = 0
  BY <1>1, IdleTyped DEF TypeOK, WorkerRecord
<1>3. /\ syncP' \in [Client -> SeqID] /\ syncP'[c] = sequenceID[c]
      /\ \A d \in Client : d # c => syncP'[d] = syncP[d]
  BY <1>1 DEF TypeOK
<1>4. TypeOK'
  BY <1>1, <1>2, <1>3 DEF TypeOK
<1>5. AskInv'
  <2>1. \A d \in Client : Settled(d)' <=> Settled(d)
    BY <1>1 DEF Settled, Asking
  <2>2. \A h \in Handler : asking[h].c # None => asking[h].c \in Client /\ asking[h].c # c
    BY <1>1, Kinds DEF AskInv, TypeOK
  <2> QED BY <1>1, <1>3, <2>1, <2>2, Kinds DEF AskInv
<1>6. WorkInv'
  BY <1>1, <1>2, <1>3, Kinds DEF WorkInv, Sending, OnWire
<1> QED BY <1>1, <1>2, <1>4, <1>5, <1>6, StampUnchanged, SequenceUnchanged, PairUnchanged

\* The same for an sptp request; a handler between its stores is an overlap.
LEMMA TakeSptpSafe ==
    ASSUME IInv, NEW c \in Client, TakeSptp(c)
    PROVE  IInv'
<1> USE DEF IInv
<1>1. /\ wk.pc = "idle" /\ Kind[c] = DelayReq /\ asked[c] > 0 /\ Len(sent) < MaxPackets
      /\ asked' = [asked EXCEPT ![c] = @ - 1]
      /\ wk' = [IdleWorker EXCEPT !.pc = "send", !.c = c, !.seq = syncP[c],
                                  !.overlap = Asking(c) # {} \/ c \in torn]
      /\ UNCHANGED <<sequenceID, syncP, announceP, asking, mixed, torn, olderKernel, timestampType,
                     newKernel, sent, inflight, errqueue, follows>>
  BY DEF TakeSptp, askVars, kernelVars, setupVars
<1>2. /\ wk' \in WorkerRecord /\ wk'.pc = "send" /\ wk'.c = c /\ wk'.seq = syncP[c]
      /\ wk'.txfound = 0 /\ wk'.overlap = ~ Settled(c)
  BY <1>1, IdleTyped DEF TypeOK, WorkerRecord, Settled
<1>3. asked' \in [Client -> Nat]
  BY <1>1, Constants DEF TypeOK
<1>4. TypeOK'
  BY <1>1, <1>2, <1>3 DEF TypeOK
<1>5. AskInv' /\ (Settled(c)' <=> Settled(c))
  BY <1>1 DEF AskInv, Settled, Asking
<1>6. WorkInv'
  BY <1>1, <1>2, <1>5, Kinds DEF WorkInv, Sending, OnWire
<1> QED BY <1>1, <1>2, <1>4, <1>5, <1>6, StampUnchanged, SequenceUnchanged, PairUnchanged

-----------------------------------------------------------------------------
(***************************************************************************)
(* Every way to abandon a message.                                         *)
(***************************************************************************)
LEMMA ContinueSafe ==
    ASSUME IInv, Continue, olderKernel => olderKernel', olderKernel' \in BOOLEAN,
           UNCHANGED <<packetVars, kernelVars, follows>>
    PROVE  IInv'
<1> USE DEF IInv, packetVars, askVars, kernelVars, setupVars
<1>1. wk' \in WorkerRecord /\ wk'.pc = "idle" /\ wk'.c = None /\ wk'.txfound = 0
  BY IdleTyped DEF Continue
<1>2. TypeOK'
  BY <1>1 DEF TypeOK
<1>3. AskInv'
  BY DEF AskInv, Settled, Asking
<1>4. WorkInv'
  BY <1>1 DEF WorkInv, Sending, OnWire
<1> QED BY <1>1, <1>2, <1>3, <1>4, StampUnchanged, SequenceUnchanged, PairUnchanged

(***************************************************************************)
(* A Sync goes out: the next packet on the wire, with the id read again.   *)
(***************************************************************************)
LEMMA SendSyncSafe ==
    ASSUME IInv, SendSync
    PROVE  IInv'
<1> DEFINE e == [c |-> wk.c, seq |-> wk.seq, id |-> syncP[wk.c]]
           n == Len(sent) + 1
<1> USE DEF IInv
<1>1. /\ wk.pc = "send" /\ (olderKernel \/ AcceptsID)
      /\ sent' = Append(sent, e) /\ inflight' = inflight \cup {n}
      /\ wk' = [wk EXCEPT !.pc = "read", !.pkt = n]
      /\ UNCHANGED <<sequenceID, syncP, announceP, asked, asking, mixed, torn, timestampType, newKernel,
                     olderKernel, errqueue, follows>>
  BY DEF SendSync, packetVars, askVars, setupVars
<1>a. Len(sent) \in Nat /\ n \in 1 .. MaxPackets /\ n \in 0 .. MaxPackets
  <2>1. Len(sent) \in Nat /\ Len(sent) < MaxPackets /\ MaxPackets \in Nat
    BY <1>1, Lengths, Constants DEF WorkInv
  <2> QED BY <2>1
<1>b. n \in Nat /\ n > 0 /\ n > Len(sent) /\ n <= MaxPackets
  BY <1>a
<1>c. wk.c \in Client /\ Kind[wk.c] \in {Sync, DelayReq} /\ wk.txfound = 0
  BY <1>1 DEF WorkInv, Sending
<1>2. /\ Len(sent) \in Nat /\ n \in Packet /\ sent \in Seq(SentRecord)
      /\ wk.c \in Client /\ Kind[wk.c] \in {Sync, DelayReq} /\ wk.txfound = 0
  BY <1>a, <1>c DEF TypeOK, Packet
<1>3. e \in SentRecord
  BY <1>2 DEF TypeOK, SentRecord, WorkerRecord
<1>4. /\ sent' \in Seq(SentRecord) /\ Len(sent') = n
      /\ \A p \in 1 .. Len(sent) : sent'[p] = sent[p]
      /\ sent'[n] = e
  BY <1>1, <1>2, <1>3, AppendAt
<1>5. /\ wk' \in WorkerRecord /\ wk'.pc = "read" /\ wk'.c = wk.c /\ wk'.seq = wk.seq
      /\ wk'.pkt = n /\ wk'.txfound = 0 /\ wk'.overlap = wk.overlap
  <2> HIDE DEF n
  <2> QED BY <1>1, <1>a, <1>c DEF TypeOK, WorkerRecord
<1>6. /\ sent'[n].seq = wk.seq /\ sent'[n].id = syncP[wk.c]
  BY <1>4
<1>7. AcceptsID => timestampType = HW
  BY DEF AcceptsID, EnableTimestamps, EnableSWTimestamps
<1> HIDE DEF e, n
<1>8. TypeOK'
  BY <1>1, <1>2, <1>4, <1>5 DEF TypeOK
<1>9. AskInv' /\ \A d \in Client : Settled(d)' <=> Settled(d)
  BY <1>1 DEF AskInv, Settled, Asking
<1>10. WorkInv'
  <2>1. Kind[wk.c] = Sync => wk.seq = sequenceID[wk.c] /\ wk.seq = syncP[wk.c]
    BY <1>1 DEF WorkInv, Sending
  <2>2. Kind[wk.c] = DelayReq /\ ~ wk.overlap => wk.seq = syncP[wk.c] /\ Settled(wk.c)
    BY <1>1 DEF WorkInv, Sending
  <2>3. Kind[wk.c] = Sync \/ ~ wk.overlap => sent'[n].id = wk.seq
    BY <1>c, <1>6, <2>1, <2>2
  <2>4. olderKernel \/ timestampType = HW
    BY <1>1, <1>7
  <2> QED BY <1>1, <1>b, <1>c, <1>4, <1>5, <1>6, <1>9, <2>1, <2>2, <2>3, <2>4
          DEF WorkInv, Sending, OnWire
<1>11. StampInv'
  <2>1. \A i \in 1 .. Len(errqueue) : errqueue[i] \in Nat /\ errqueue[i] > 0
    BY Elements
  <2>2. \A i \in 1 .. Len(follows) : /\ follows[i].ts \in Nat /\ follows[i].ts > 0
                                    /\ follows[i].pkt \in Nat
    BY Elements
  <2>3. \A p \in inflight : p \in Nat /\ p > 0
    BY Elements DEF TypeOK
  <2>4. /\ Len(sent') <= MaxPackets /\ \A p \in inflight' : p <= Len(sent')
        /\ wk'.txfound <= Len(sent') /\ wk'.txfound \notin inflight'
    <3>1. \A p \in inflight : p <= Len(sent)
      BY DEF StampInv
    <3>2. \A p \in inflight' : p \in Nat /\ p > 0 /\ p <= n
      BY <1>1, <1>a, <1>b, <2>3, <3>1
    <3> QED BY <1>4, <1>5, <1>b, <3>2
  <2>5. \A i \in 1 .. Len(errqueue) :
            /\ errqueue[i] <= Len(sent') /\ errqueue[i] \notin inflight'
            /\ errqueue[i] # wk'.txfound
    BY <1>1, <1>2, <1>4, <1>5, <2>1 DEF StampInv
  <2>6. \A i \in 1 .. Len(follows) :
            /\ follows[i].pkt <= Len(sent') /\ follows[i].ts \notin inflight'
            /\ follows[i].ts # wk'.txfound
    BY <1>1, <1>2, <1>4, <1>5, <2>2 DEF StampInv
  <2> QED BY <1>1, <2>4, <2>5, <2>6 DEF StampInv
<1>12. PairInv'
  <2>1. \A i \in 1 .. Len(follows) :
            sent'[follows[i].ts] = sent[follows[i].ts] /\ sent'[follows[i].pkt] = sent[follows[i].pkt]
    <3> SUFFICES ASSUME NEW i \in 1 .. Len(follows)
                 PROVE  follows[i].ts \in 1 .. Len(sent) /\ follows[i].pkt \in 1 .. Len(sent)
      BY <1>4
    <3> QED BY <1>2, Elements DEF StampInv
  <2>2. OneSequenceNumber'
    BY <1>1, <2>1 DEF PairInv, OneSequenceNumber
  <2>3. AnswerPaired'
    BY <1>1, <2>1 DEF PairInv, AnswerPaired
  <2>4. PTPTime'
    BY <1>1 DEF PairInv, PTPTime
  <2> QED BY <2>2, <2>3, <2>4 DEF PairInv
<1> QED BY <1>1, <1>8, <1>9, <1>10, <1>11, <1>12, SequenceUnchanged

(***************************************************************************)
(* What an attempt leaves in the worker's locals.                          *)
(***************************************************************************)
LEMMA FoundTyped ==
    ASSUME TypeOK, NEW ts \in Packet
    PROVE  /\ Found(ts) \in WorkerRecord /\ Found(ts).pc = "follow" /\ Found(ts).c = wk.c
           /\ Found(ts).seq = wk.seq /\ Found(ts).pkt = wk.pkt
           /\ Found(ts).overlap = wk.overlap /\ Found(ts).txfound = ts
<1>1. ts \in 0 .. MaxPackets
  BY DEF Packet
<1> QED BY <1>1 DEF Found, TypeOK, WorkerRecord

\* An attempt is counted; one more fits.
LEMMA RetryTyped ==
    ASSUME TypeOK, wk.attempts < AttemptsTXTS
    PROVE  /\ Retry \in WorkerRecord /\ Retry.pc = wk.pc /\ Retry.c = wk.c
           /\ Retry.seq = wk.seq /\ Retry.pkt = wk.pkt
           /\ Retry.overlap = wk.overlap /\ Retry.txfound = wk.txfound
<1>1. wk.attempts \in 0 .. AttemptsTXTS
  BY DEF TypeOK, WorkerRecord
<1>2. wk.attempts + 1 \in 0 .. AttemptsTXTS
  BY <1>1, Constants
<1> QED BY <1>2 DEF Retry, TypeOK, WorkerRecord

\* The worker holds a timestamp or none.
LEMMA FoundOrNot ==
    ASSUME TypeOK
    PROVE  wk.txfound \in {0} \cup Packet
<1>1. wk.txfound \in 0 .. MaxPackets
  BY DEF TypeOK, WorkerRecord
<1> QED BY <1>1, Constants DEF Packet

(***************************************************************************)
(* The worker looks for a timestamp: the head of the error queue, if any,  *)
(* is taken out of it and kept or dropped.                                 *)
(***************************************************************************)
LEMMA ReadSafe ==
    ASSUME IInv, wk.pc = "read", NEW ts \in {0} \cup Packet, NEW pc \in {"read", "follow"},
           wk' \in WorkerRecord, wk'.pc = pc, wk'.c = wk.c, wk'.seq = wk.seq,
           wk'.pkt = wk.pkt, wk'.overlap = wk.overlap, wk'.txfound = ts,
           \/ UNCHANGED errqueue /\ ts \in {0, wk.txfound}
           \/ /\ errqueue # << >> /\ errqueue' = Tail(errqueue)
              /\ ts \in {0, wk.txfound, Head(errqueue)},
           pc = "read" /\ ~ olderKernel => ts = 0,
           pc = "follow" => ts # 0 /\ (~ olderKernel => sent[ts].id = sent[wk.pkt].id),
           UNCHANGED <<packetVars, setupVars, olderKernel, sent, inflight, follows>>
    PROVE  IInv'
<1> USE DEF IInv, packetVars, askVars, setupVars
<1>1. /\ errqueue' \in Seq(Packet) /\ Len(errqueue') \in Nat
      /\ ts \in {0, wk.txfound} \/ (Len(errqueue) > 0 /\ ts = errqueue[1])
      /\ \/ UNCHANGED errqueue /\ ts \in {0, wk.txfound}
         \/ /\ Len(errqueue) > 0 /\ Len(errqueue') = Len(errqueue) - 1
            /\ \A i \in 1 .. Len(errqueue) - 1 : errqueue'[i] = errqueue[i + 1]
  <2>1. errqueue \in Seq(Packet) /\ Len(errqueue) \in Nat
    BY Lengths DEF TypeOK
  <2>2. CASE UNCHANGED errqueue /\ ts \in {0, wk.txfound}
    BY <2>1, <2>2
  <2>3. CASE /\ errqueue # << >> /\ errqueue' = Tail(errqueue)
             /\ ts \in {0, wk.txfound, Head(errqueue)}
    <3>1. /\ Tail(errqueue) \in Seq(Packet) /\ Len(errqueue) > 0
          /\ Len(Tail(errqueue)) = Len(errqueue) - 1 /\ Head(errqueue) = errqueue[1]
          /\ \A i \in 1 .. Len(errqueue) - 1 : Tail(errqueue)[i] = errqueue[i + 1]
      BY <2>1, <2>3, TailAt
    <3>2. Len(errqueue) - 1 \in Nat
      BY <2>1, <3>1
    <3> QED BY <2>3, <3>1, <3>2
  <2> QED BY <2>2, <2>3
<1>2. TypeOK'
  BY <1>1 DEF TypeOK
<1>3. AskInv'
  BY DEF AskInv, Settled, Asking
<1>4. WorkInv'
  BY DEF WorkInv, Sending, OnWire, Settled, Asking
<1>5. StampInv'
  <2>1. Len(errqueue) \in Nat /\ Len(sent) \in Nat
    BY Lengths
  <2>2. /\ 0 \notin inflight /\ \A i \in 1 .. Len(errqueue) : errqueue[i] # 0
        /\ \A i \in 1 .. Len(follows) : follows[i].ts # 0
    <3>1. 0 \notin Packet /\ inflight \subseteq Packet
      BY DEF TypeOK, Packet
    <3> QED BY <3>1, Elements
  <2>3. CASE UNCHANGED errqueue /\ ts \in {0, wk.txfound}
    BY <2>1, <2>2, <2>3 DEF StampInv
  <2>4. CASE /\ Len(errqueue) > 0 /\ Len(errqueue') = Len(errqueue) - 1
             /\ \A i \in 1 .. Len(errqueue) - 1 : errqueue'[i] = errqueue[i + 1]
    <3>1. ts <= Len(sent) /\ ts \notin inflight
      BY <1>1, <2>1, <2>2, <2>4 DEF StampInv
    <3>2. \A i \in 1 .. Len(errqueue') :
              /\ i + 1 \in 1 .. Len(errqueue) /\ i + 1 # 1
              /\ errqueue'[i] = errqueue[i + 1]
      BY <2>1, <2>4
    <3>3. \A i \in 1 .. Len(errqueue') :
              /\ errqueue'[i] <= Len(sent) /\ errqueue'[i] \notin inflight
      BY <3>2 DEF StampInv
    <3>4. \A i \in 1 .. Len(errqueue') : errqueue'[i] # ts
      <4> SUFFICES ASSUME NEW i \in 1 .. Len(errqueue') PROVE errqueue[i + 1] # ts
        BY <3>2
      <4>1. 1 \in 1 .. Len(errqueue)
        BY <2>1, <2>4
      <4> QED BY <1>1, <2>2, <3>2, <4>1 DEF StampInv
    <3>5. \A i, j \in 1 .. Len(errqueue') : errqueue'[i] = errqueue'[j] => i = j
      <4> SUFFICES ASSUME NEW i \in 1 .. Len(errqueue'), NEW j \in 1 .. Len(errqueue'),
                          errqueue[i + 1] = errqueue[j + 1]
                   PROVE  i = j
        BY <3>2
      <4>1. i + 1 = j + 1
        BY <3>2 DEF StampInv
      <4> QED BY <1>1, <4>1
    <3>6. \A i \in 1 .. Len(follows) : follows[i].ts # ts
      BY <1>1, <2>1, <2>2, <2>4 DEF StampInv
    <3>7. \A i \in 1 .. Len(follows) : \A j \in 1 .. Len(errqueue') :
              follows[i].ts # errqueue'[j]
      <4>1. \A i \in 1 .. Len(follows) : \A j \in 1 .. Len(errqueue) :
                follows[i].ts # errqueue[j]
        BY DEF StampInv
      <4> QED BY <3>2, <4>1
    <3> QED BY <3>1, <3>3, <3>4, <3>5, <3>6, <3>7 DEF StampInv
  <2> QED BY <1>1, <2>3, <2>4
<1> QED BY <1>2, <1>3, <1>4, <1>5, SequenceUnchanged, PairUnchanged

(***************************************************************************)
(* An attempt on a recent kernel: only a timestamp with the id is kept.    *)
(***************************************************************************)
LEMMA ReadSeqIDSafe ==
    ASSUME IInv, ReadTimeStampSeqID
    PROVE  IInv'
<1> USE DEF IInv
<1>1. /\ wk.pc = "read" /\ ~ olderKernel /\ wk.attempts < AttemptsTXTS
      /\ UNCHANGED <<packetVars, setupVars, olderKernel, sent, inflight, follows>>
  BY DEF ReadTimeStampSeqID
<1>2. wk.txfound = 0
  BY <1>1 DEF WorkInv
<1>3. CASE errqueue = << >>
  <2>1. wk' = Retry /\ UNCHANGED errqueue
    BY <1>3 DEF ReadTimeStampSeqID
  <2> QED BY <1>1, <1>2, <2>1, RetryTyped, ReadSafe
<1>4. CASE errqueue # << >>
  <2>1. errqueue' = Tail(errqueue)
    BY <1>4 DEF ReadTimeStampSeqID
  <2>2. Head(errqueue) \in Packet
    BY <1>4, TailAt DEF TypeOK
  <2>3. CASE MatchesSeqID(Head(errqueue))
    <3>1. wk' = Found(Head(errqueue))
      BY <1>4, <2>3 DEF ReadTimeStampSeqID
    <3>2. Head(errqueue) # 0
      BY <2>2, Elements
    <3> QED BY <1>1, <1>4, <2>1, <2>2, <2>3, <3>1, <3>2, FoundTyped, ReadSafe DEF MatchesSeqID
  <2>4. CASE ~ MatchesSeqID(Head(errqueue))
    <3>1. wk' = Retry
      BY <1>4, <2>4 DEF ReadTimeStampSeqID
    <3> QED BY <1>1, <1>2, <1>4, <2>1, <3>1, RetryTyped, ReadSafe
  <2> QED BY <2>3, <2>4
<1> QED BY <1>3, <1>4

(***************************************************************************)
(* An attempt on an older kernel: the latest timestamp is kept.            *)
(***************************************************************************)
LEMMA ReadTXSafe ==
    ASSUME IInv, ReadTXtimestamp
    PROVE  IInv'
<1> USE DEF IInv
<1>1. /\ wk.pc = "read" /\ olderKernel /\ wk.attempts < AttemptsTXTS
      /\ UNCHANGED <<packetVars, setupVars, olderKernel, sent, inflight, follows>>
  BY DEF ReadTXtimestamp
<1>2. wk.txfound \in {0} \cup Packet
  BY FoundOrNot
<1>3. CASE errqueue = << >> /\ wk.txfound # 0
  <2>1. wk' = Found(wk.txfound) /\ UNCHANGED errqueue
    BY <1>3 DEF ReadTXtimestamp
  <2> QED BY <1>1, <1>2, <1>3, <2>1, FoundTyped, ReadSafe
<1>4. CASE errqueue = << >> /\ wk.txfound = 0
  <2>1. wk' = Retry /\ UNCHANGED errqueue
    BY <1>4 DEF ReadTXtimestamp
  <2> QED BY <1>1, <1>4, <2>1, RetryTyped, ReadSafe
<1>5. CASE errqueue # << >>
  <2>1. errqueue' = Tail(errqueue) /\ wk' = [Retry EXCEPT !.txfound = Head(errqueue)]
    BY <1>5 DEF ReadTXtimestamp
  <2>2. Head(errqueue) \in Packet
    BY <1>5, TailAt DEF TypeOK
  <2>3. /\ wk' \in WorkerRecord /\ wk'.pc = "read" /\ wk'.c = wk.c /\ wk'.seq = wk.seq
        /\ wk'.pkt = wk.pkt /\ wk'.overlap = wk.overlap /\ wk'.txfound = Head(errqueue)
    <3>1. Head(errqueue) \in 0 .. MaxPackets
      BY <2>2 DEF Packet
    <3> QED BY <1>1, <2>1, <3>1, RetryTyped DEF WorkerRecord
  <2> QED BY <1>1, <1>5, <2>1, <2>2, <2>3, ReadSafe
<1> QED BY <1>3, <1>4, <1>5

(***************************************************************************)
(* No attempt left: what was found counts, or the message is abandoned.    *)
(***************************************************************************)
LEMMA ReadExhaustedSafe ==
    ASSUME IInv, ReadExhausted
    PROVE  IInv'
<1> USE DEF IInv
<1>1. wk.pc = "read" /\ UNCHANGED <<packetVars, olderKernel, kernelVars, follows>>
  BY DEF ReadExhausted
<1>2. wk.txfound \in {0} \cup Packet
  BY FoundOrNot
<1>3. CASE wk.txfound # 0
  <2>1. wk' = Found(wk.txfound)
    BY <1>3 DEF ReadExhausted
  <2>2. olderKernel
    BY <1>1, <1>3 DEF WorkInv
  <2>3. UNCHANGED errqueue /\ UNCHANGED <<packetVars, setupVars, olderKernel, sent, inflight, follows>>
    BY <1>1 DEF kernelVars
  <2> QED BY <1>1, <1>2, <1>3, <2>1, <2>2, <2>3, FoundTyped, ReadSafe
<1>4. CASE wk.txfound = 0
  <2>1. Continue
    BY <1>4 DEF ReadExhausted
  <2> QED BY <1>1, <2>1, ContinueSafe DEF TypeOK
<1> QED BY <1>3, <1>4

-----------------------------------------------------------------------------
(***************************************************************************)
(* The second packet is sent.  What it says of the packet before it:       *)
(***************************************************************************)
LEMMA FollowUpPaired ==
    ASSUME IInv, wk.pc = "follow"
    PROVE  /\ wk.c \in Client /\ Kind[wk.c] \in {Sync, DelayReq}
           /\ wk.pkt \in Packet /\ wk.txfound \in Packet
           /\ wk.pkt = Len(sent) /\ FollowUpSeq(wk.c) \in SeqID
           /\ Kind[wk.c] = Sync => /\ FollowUpSeq(wk.c) = sequenceID[wk.c]
                                   /\ FollowUpSeq(wk.c) = sent[wk.pkt].seq
           /\ Kind[wk.c] = Sync \/ ~ wk.overlap =>
                  FollowUpSeq(wk.c) = sent[wk.pkt].seq /\ FollowUpSeq(wk.c) = sent[wk.pkt].id
           /\ ~ olderKernel => sent[wk.txfound].id = sent[wk.pkt].id
           /\ AddsUTCOffset <=> timestampType = SW
<1> USE DEF IInv
<1>1. /\ wk.c \in Client /\ Kind[wk.c] \in {Sync, DelayReq}
      /\ wk.pkt = Len(sent) /\ wk.pkt > 0 /\ sent[wk.pkt].seq = wk.seq
      /\ Kind[wk.c] = Sync \/ ~ wk.overlap => sent[wk.pkt].id = wk.seq
      /\ olderKernel \/ timestampType = HW
      /\ wk.txfound # 0 /\ (~ olderKernel => sent[wk.txfound].id = sent[wk.pkt].id)
  BY DEF WorkInv, Sending, OnWire
<1>2. wk.txfound \in Packet
  BY <1>1, FoundOrNot
<1>3. wk.pkt \in Packet
  <2>1. Len(sent) \in Nat /\ Len(sent) <= MaxPackets
    BY Lengths DEF StampInv
  <2> QED BY <1>1, <2>1, Constants DEF Packet
<1>4. FollowUpSeq(wk.c) \in SeqID
  BY <1>1 DEF FollowUpSeq, TypeOK
<1>5. Kind[wk.c] = Sync => FollowUpSeq(wk.c) = sequenceID[wk.c] /\ sequenceID[wk.c] = wk.seq
  BY DEF FollowUpSeq, WorkInv, Sending
<1>6. Kind[wk.c] = DelayReq /\ ~ wk.overlap => FollowUpSeq(wk.c) = wk.seq
  <2> SUFFICES ASSUME Kind[wk.c] = DelayReq, ~ wk.overlap PROVE FollowUpSeq(wk.c) = wk.seq
    OBVIOUS
  <2>1. wk.seq = syncP[wk.c] /\ Settled(wk.c)
    BY DEF WorkInv, Sending
  <2>2. announceP[wk.c] = syncP[wk.c]
    BY <1>1, <2>1 DEF AskInv
  <2> QED BY <2>1, <2>2, Kinds DEF FollowUpSeq
<1>7. AddsUTCOffset <=> timestampType = SW
  BY <1>1 DEF AddsUTCOffset, TypeOK, HW, SW
<1> QED BY <1>1, <1>2, <1>3, <1>4, <1>5, <1>6, <1>7

(***************************************************************************)
(* The places of c's second packets after one more was sent, to d.         *)
(***************************************************************************)
LEMMA FollowsGrow ==
    ASSUME TypeOK, NEW f \in FollowRecord, follows' = Append(follows, f), NEW c \in Client
    PROVE  /\ Follows(c)' = IF f.c = c THEN Follows(c) \cup {Len(follows) + 1} ELSE Follows(c)
           /\ \A i \in Follows(c) : i \in Nat /\ i <= Len(follows) /\ follows'[i] = follows[i]
<1>1. /\ Len(follows) \in Nat /\ Len(follows') = Len(follows) + 1
      /\ \A i \in 1 .. Len(follows) : follows'[i] = follows[i]
      /\ follows'[Len(follows) + 1] = f
  BY AppendAt DEF TypeOK
<1>2. \A i : i \in 1 .. Len(follows') <=> i \in 1 .. Len(follows) \/ i = Len(follows) + 1
  BY <1>1
<1> QED BY <1>1, <1>2 DEF Follows

(***************************************************************************)
(* The numbers stay consecutive: the second packet has the subscription's  *)
(* number, which is then incremented.                                      *)
(***************************************************************************)
LEMMA FollowUpConsecutive ==
    ASSUME IInv, NEW f \in FollowRecord, follows' = Append(follows, f),
           Kind[f.c] = Sync => f.seq = sequenceID[f.c],
           sequenceID' = [sequenceID EXCEPT ![f.c] = (@ + 1) % SeqMod]
    PROVE  SequenceInv' /\ FollowUpsConsecutive'
<1> DEFINE m == Len(follows) + 1
<1> USE DEF IInv
<1>1. f.c \in Client /\ Len(follows) \in Nat
  BY Lengths DEF FollowRecord
<1>2. follows'[m] = f
  BY AppendAt DEF TypeOK
<1>m. m \in Nat /\ m > Len(follows)
  BY <1>1
<1> SUFFICES ASSUME NEW c \in Client, Kind[c] = Sync
    PROVE /\ \/ Follows(c)' = {} /\ sequenceID'[c] = 0
             \/ \E i \in Follows(c)' :
                    /\ \A j \in Follows(c)' : j <= i
                    /\ sequenceID'[c] = (follows'[i].seq + 1) % SeqMod
          /\ \A i \in Follows(c)' :
                \/ follows'[i].seq = 0 /\ \A j \in Follows(c)' : j >= i
                \/ \E j \in Follows(c)' :
                    /\ j < i /\ \A k \in Follows(c)' : k <= j \/ k >= i
                    /\ follows'[i].seq = (follows'[j].seq + 1) % SeqMod
  BY DEF SequenceInv, FollowUpsConsecutive
<1>3. /\ Follows(c)' = IF f.c = c THEN Follows(c) \cup {m} ELSE Follows(c)
      /\ \A i \in Follows(c) : i \in Nat /\ i <= Len(follows) /\ follows'[i] = follows[i]
  BY FollowsGrow
<1>4. /\ \/ Follows(c) = {} /\ sequenceID[c] = 0
         \/ \E i \in Follows(c) :
                /\ \A j \in Follows(c) : j <= i
                /\ sequenceID[c] = (follows[i].seq + 1) % SeqMod
      /\ \A i \in Follows(c) :
            \/ follows[i].seq = 0 /\ \A j \in Follows(c) : j >= i
            \/ \E j \in Follows(c) :
                /\ j < i /\ \A k \in Follows(c) : k <= j \/ k >= i
                /\ follows[i].seq = (follows[j].seq + 1) % SeqMod
  BY DEF SequenceInv, FollowUpsConsecutive
<1> HIDE DEF m, IInv
<1>5. CASE f.c # c
  <2>1. sequenceID'[c] = sequenceID[c] /\ Follows(c)' = Follows(c)
    BY <1>3, <1>5 DEF TypeOK, IInv
  <2>2. \A i \in Follows(c) : follows'[i].seq = follows[i].seq
    BY <1>3
  <2>3. \/ Follows(c)' = {} /\ sequenceID'[c] = 0
        \/ \E i \in Follows(c)' :
               /\ \A j \in Follows(c)' : j <= i
               /\ sequenceID'[c] = (follows'[i].seq + 1) % SeqMod
    BY <1>4, <2>1, <2>2
  <2>4. ASSUME NEW i \in Follows(c)
        PROVE  \/ follows'[i].seq = 0 /\ \A j \in Follows(c) : j >= i
               \/ \E j \in Follows(c) :
                    /\ j < i /\ \A k \in Follows(c) : k <= j \/ k >= i
                    /\ follows'[i].seq = (follows'[j].seq + 1) % SeqMod
    <3>1. CASE follows[i].seq = 0 /\ \A j \in Follows(c) : j >= i
      BY <2>2, <3>1
    <3>2. CASE \E j \in Follows(c) :
                    /\ j < i /\ \A k \in Follows(c) : k <= j \/ k >= i
                    /\ follows[i].seq = (follows[j].seq + 1) % SeqMod
      BY <2>2, <3>2
    <3> QED BY <1>4, <3>1, <3>2
  <2>5. ASSUME NEW i \in Follows(c)'
        PROVE  \/ follows'[i].seq = 0 /\ \A j \in Follows(c)' : j >= i
               \/ \E j \in Follows(c)' :
                    /\ j < i /\ \A k \in Follows(c)' : k <= j \/ k >= i
                    /\ follows'[i].seq = (follows'[j].seq + 1) % SeqMod
    <3>1. i \in Follows(c)
      BY <2>1
    <3>2. CASE follows'[i].seq = 0 /\ \A j \in Follows(c) : j >= i
      BY <2>1, <3>2
    <3>3. ASSUME NEW j \in Follows(c), j < i, \A k \in Follows(c) : k <= j \/ k >= i,
                 follows'[i].seq = (follows'[j].seq + 1) % SeqMod
          PROVE  \E x \in Follows(c)' :
                    /\ x < i /\ \A k \in Follows(c)' : k <= x \/ k >= i
                    /\ follows'[i].seq = (follows'[x].seq + 1) % SeqMod
      <4>1. j \in Follows(c)' /\ \A k \in Follows(c)' : k <= j \/ k >= i
        BY <2>1, <3>3
      <4> QED BY <3>3, <4>1
    <3> QED BY <2>4, <3>1, <3>2, <3>3
  <2> QED BY <2>3, <2>5
<1>6. CASE f.c = c
  <2>1. /\ sequenceID'[c] = (f.seq + 1) % SeqMod /\ f.seq = sequenceID[c]
        /\ Follows(c)' = Follows(c) \cup {m}
    BY <1>3, <1>6 DEF TypeOK, IInv
  <2>2. \A j \in Follows(c)' : j \in Nat /\ j <= m
    BY <1>1, <1>m, <1>3, <2>1
  <2>3. m \in Follows(c)' /\ sequenceID'[c] = (follows'[m].seq + 1) % SeqMod
    BY <1>2, <2>1
  <2>4. ASSUME NEW i \in Follows(c)
        PROVE  \/ follows'[i].seq = 0 /\ \A j \in Follows(c)' : j >= i
               \/ \E j \in Follows(c)' :
                    /\ j < i /\ \A k \in Follows(c)' : k <= j \/ k >= i
                    /\ follows'[i].seq = (follows'[j].seq + 1) % SeqMod
    <3>1. i \in Nat /\ i < m
      BY <1>1, <1>m, <1>3
    <3>2. CASE follows[i].seq = 0 /\ \A j \in Follows(c) : j >= i
      <4>1. m >= i
        BY <1>m, <3>1
      <4> QED BY <1>3, <2>1, <3>2, <4>1
    <3>3. ASSUME NEW j \in Follows(c), j < i, \A k \in Follows(c) : k <= j \/ k >= i,
                 follows[i].seq = (follows[j].seq + 1) % SeqMod
          PROVE  \E l \in Follows(c)' :
                    /\ l < i /\ \A k \in Follows(c)' : k <= l \/ k >= i
                    /\ follows'[i].seq = (follows'[l].seq + 1) % SeqMod
      <4>1. m >= i
        BY <1>m, <3>1
      <4>2. \A k \in Follows(c)' : k <= j \/ k >= i
        BY <2>1, <3>3, <4>1
      <4>3. follows'[i].seq = (follows'[j].seq + 1) % SeqMod /\ j \in Follows(c)'
        BY <1>3, <2>1, <3>3
      <4> QED BY <3>3, <4>2, <4>3
    <3> QED BY <1>4, <3>2, <3>3
  <2>5. \/ follows'[m].seq = 0 /\ \A j \in Follows(c)' : j >= m
        \/ \E j \in Follows(c)' :
             /\ j < m /\ \A k \in Follows(c)' : k <= j \/ k >= m
             /\ follows'[m].seq = (follows'[j].seq + 1) % SeqMod
    <3>1. CASE Follows(c) = {} /\ sequenceID[c] = 0
      BY <1>2, <1>m, <2>1, <3>1
    <3>2. ASSUME NEW i \in Follows(c), \A j \in Follows(c) : j <= i,
                 sequenceID[c] = (follows[i].seq + 1) % SeqMod
          PROVE  \E j \in Follows(c)' :
                    /\ j < m /\ \A k \in Follows(c)' : k <= j \/ k >= m
                    /\ follows'[m].seq = (follows'[j].seq + 1) % SeqMod
      <4>1. i < m /\ m >= m
        BY <1>1, <1>m, <1>3
      <4>2. \A k \in Follows(c)' : k <= i \/ k >= m
        BY <2>1, <3>2, <4>1
      <4>3. follows'[m].seq = (follows'[i].seq + 1) % SeqMod /\ i \in Follows(c)'
        BY <1>2, <1>3, <2>1, <3>2
      <4> QED BY <4>1, <4>2, <4>3
    <3> QED BY <1>4, <3>1, <3>2
  <2>6. \A i \in Follows(c)' : i \in Follows(c) \/ i = m
    BY <2>1
  <2>7. \E i \in Follows(c)' :
            /\ \A j \in Follows(c)' : j <= i
            /\ sequenceID'[c] = (follows'[i].seq + 1) % SeqMod
    BY <2>2, <2>3
  <2>8. ASSUME NEW i \in Follows(c)'
        PROVE  \/ follows'[i].seq = 0 /\ \A j \in Follows(c)' : j >= i
               \/ \E j \in Follows(c)' :
                    /\ j < i /\ \A k \in Follows(c)' : k <= j \/ k >= i
                    /\ follows'[i].seq = (follows'[j].seq + 1) % SeqMod
    <3>1. CASE i \in Follows(c)
      BY <2>4, <3>1
    <3>2. CASE i = m
      BY <2>5, <3>2
    <3> QED BY <2>6, <3>1, <3>2
  <2> QED BY <2>7, <2>8
<1> QED BY <1>5, <1>6

\* A second packet goes out; its timestamp leaves the worker.
LEMMA FollowUpSafe ==
    ASSUME IInv, FollowUp
    PROVE  IInv'
<1> DEFINE f == [c |-> wk.c, seq |-> FollowUpSeq(wk.c), pkt |-> wk.pkt, ts |-> wk.txfound,
                 utc |-> AddsUTCOffset, overlap |-> wk.overlap]
           m == Len(follows) + 1
<1> USE DEF IInv
<1>1. /\ wk.pc = "follow" /\ follows' = Append(follows, f)
      /\ sequenceID' = [sequenceID EXCEPT ![wk.c] = (@ + 1) % SeqMod]
      /\ wk' = IdleWorker
      /\ UNCHANGED <<syncP, announceP, asked, asking, mixed, torn, olderKernel, timestampType, newKernel,
                     sent, inflight, errqueue>>
  BY DEF FollowUp, IncSequenceID, Continue, askVars, kernelVars, setupVars
<1>2. /\ wk.c \in Client /\ wk.pkt \in Packet /\ wk.txfound \in Packet
      /\ FollowUpSeq(wk.c) \in SeqID /\ AddsUTCOffset \in BOOLEAN /\ wk.overlap \in BOOLEAN
      /\ wk.pkt = Len(sent)
  BY <1>1, FollowUpPaired DEF AddsUTCOffset, TypeOK, WorkerRecord
<1>3. f \in FollowRecord
  BY <1>2 DEF FollowRecord
<1>4. /\ follows \in Seq(FollowRecord) /\ Len(follows) \in Nat
      /\ follows' \in Seq(FollowRecord) /\ Len(follows') = m
      /\ \A i \in 1 .. Len(follows) : follows'[i] = follows[i]
      /\ follows'[m] = f
  BY <1>1, <1>3, AppendAt DEF TypeOK
<1>5. \A i : i \in 1 .. Len(follows') <=> i \in 1 .. Len(follows) \/ i = m
  BY <1>4
<1>6. m \notin 1 .. Len(follows)
  BY <1>4
<1>7. /\ f.c = wk.c /\ f.seq = FollowUpSeq(wk.c) /\ f.pkt = wk.pkt /\ f.ts = wk.txfound
      /\ f.utc = AddsUTCOffset /\ f.overlap = wk.overlap
  OBVIOUS
<1>8. wk' \in WorkerRecord /\ wk'.pc = "idle" /\ wk'.c = None /\ wk'.txfound = 0
  BY <1>1, IdleTyped
<1> HIDE DEF f, m
<1>9. TypeOK'
  <2>1. sequenceID' \in [Client -> SeqID]
    BY <1>1, Constants DEF TypeOK
  <2> QED BY <1>1, <1>4, <1>8, <2>1 DEF TypeOK
<1>10. AskInv'
  BY <1>1 DEF AskInv, Settled, Asking
<1>11. WorkInv'
  BY <1>8 DEF WorkInv, Sending, OnWire
<1>12. SequenceInv' /\ FollowUpsConsecutive'
  <2>1. Kind[f.c] = Sync => f.seq = sequenceID[f.c]
    BY <1>1, <1>7, FollowUpPaired
  <2> QED BY <1>1, <1>3, <1>7, <2>1, FollowUpConsecutive
<1>13. PairInv'
  <2> SUFFICES ASSUME NEW i \in 1 .. Len(follows')
      PROVE /\ ~ olderKernel =>
                 /\ sent[follows'[i].ts].id = sent[follows'[i].pkt].id
                 /\ Kind[follows'[i].c] = Sync =>
                        /\ follows'[i].seq = sent[follows'[i].pkt].seq
                        /\ follows'[i].seq = sent[follows'[i].ts].id
            /\ Kind[follows'[i].c] = DelayReq /\ ~ follows'[i].overlap =>
                 /\ follows'[i].seq = sent[follows'[i].pkt].seq
                 /\ follows'[i].seq = sent[follows'[i].pkt].id
            /\ follows'[i].utc <=> timestampType = SW
    BY <1>1 DEF PairInv, OneSequenceNumber, AnswerPaired, PTPTime
  <2>1. CASE i \in 1 .. Len(follows)
    BY <1>4, <2>1 DEF PairInv, OneSequenceNumber, AnswerPaired, PTPTime
  <2>2. CASE i = m
    BY <1>1, <1>4, <1>7, <2>2, FollowUpPaired
  <2> QED BY <1>5, <2>1, <2>2
<1>14. StampInv'
  <2>1. /\ Len(sent') <= MaxPackets /\ \A p \in inflight' : p <= Len(sent')
        /\ wk'.txfound <= Len(sent') /\ wk'.txfound \notin inflight'
    <3>1. Len(sent) \in Nat /\ 0 \notin Packet /\ inflight \subseteq Packet
      BY Lengths DEF TypeOK, Packet
    <3> QED BY <1>1, <1>8, <3>1 DEF StampInv
  <2>2. \A i \in 1 .. Len(errqueue) : errqueue[i] # 0
    BY Elements
  <2>3. \A i \in 1 .. Len(errqueue') :
            /\ errqueue'[i] <= Len(sent') /\ errqueue'[i] \notin inflight'
            /\ errqueue'[i] # wk'.txfound
            /\ \A j \in 1 .. Len(errqueue') : errqueue'[i] = errqueue'[j] => i = j
    BY <1>1, <1>8, <2>2 DEF StampInv
  <2>4. /\ wk.txfound <= Len(sent) /\ wk.txfound \notin inflight /\ wk.txfound # 0
        /\ \A j \in 1 .. Len(errqueue) : errqueue[j] # wk.txfound
        /\ \A i \in 1 .. Len(follows) : follows[i].ts # wk.txfound
    BY <1>2, Elements DEF StampInv
  <2>5. ASSUME NEW i \in 1 .. Len(follows')
        PROVE  /\ follows'[i].ts <= follows'[i].pkt /\ follows'[i].pkt <= Len(sent)
               /\ follows'[i].ts \notin inflight /\ follows'[i].ts # 0
               /\ \A j \in 1 .. Len(errqueue) : follows'[i].ts # errqueue[j]
    <3>1. CASE i \in 1 .. Len(follows)
      <4>1. follows[i].ts # 0
        BY <3>1, Elements
      <4> QED BY <1>4, <3>1, <4>1 DEF StampInv
    <3>2. CASE i = m
      <4>1. Len(sent) <= Len(sent)
        BY Lengths
      <4> QED BY <1>2, <1>4, <1>7, <2>4, <3>2, <4>1
    <3> QED BY <1>5, <3>1, <3>2
  <2>6. ASSUME NEW i \in 1 .. Len(follows'), NEW j \in 1 .. Len(follows'),
               follows'[i].ts = follows'[j].ts
        PROVE  i = j
    <3>1. CASE i \in 1 .. Len(follows) /\ j \in 1 .. Len(follows)
      BY <1>4, <2>6, <3>1 DEF StampInv
    <3>2. CASE i \in 1 .. Len(follows) /\ j = m
      BY <1>4, <1>7, <2>4, <2>6, <3>2
    <3>3. CASE i = m /\ j \in 1 .. Len(follows)
      BY <1>4, <1>7, <2>4, <2>6, <3>3
    <3> QED BY <1>5, <3>1, <3>2, <3>3
  <2> QED BY <1>1, <1>8, <2>1, <2>3, <2>5, <2>6 DEF StampInv
<1> QED BY <1>9, <1>10, <1>11, <1>12, <1>13, <1>14

-----------------------------------------------------------------------------
(***************************************************************************)
(* The kernel: a timestamp goes from its way into the queue, or is lost.   *)
(***************************************************************************)
LEMMA DeliverSafe ==
    ASSUME IInv, NEW p \in Packet, DeliverTimestamp(p)
    PROVE  IInv'
<1> DEFINE m == Len(errqueue) + 1
<1> USE DEF IInv
<1>1. /\ p \in inflight /\ inflight' = inflight \ {p} /\ errqueue' = Append(errqueue, p)
      /\ UNCHANGED <<sequenceID, syncP, announceP, asked, asking, mixed, torn, timestampType, newKernel, wk,
                     olderKernel, sent, follows>>
  BY DEF DeliverTimestamp, packetVars, askVars, setupVars
<1>2. /\ errqueue' \in Seq(Packet) /\ Len(errqueue) \in Nat /\ Len(errqueue') = m
      /\ \A i \in 1 .. Len(errqueue) : errqueue'[i] = errqueue[i]
      /\ errqueue'[m] = p
  BY <1>1, AppendAt DEF TypeOK
<1>3. \A i : i \in 1 .. Len(errqueue') <=> i \in 1 .. Len(errqueue) \/ i = m
  BY <1>2
<1> HIDE DEF m
<1>4. TypeOK'
  BY <1>1, <1>2 DEF TypeOK
<1>5. AskInv' /\ WorkInv'
  BY <1>1 DEF AskInv, WorkInv, Settled, Asking, Sending, OnWire
<1>6. StampInv'
  <2>1. /\ p <= Len(sent) /\ p # wk.txfound
        /\ \A i \in 1 .. Len(errqueue) : errqueue[i] # p
        /\ \A i \in 1 .. Len(follows) : follows[i].ts # p
    BY <1>1 DEF StampInv
  <2>2. ASSUME NEW i \in 1 .. Len(errqueue')
        PROVE  /\ errqueue'[i] <= Len(sent) /\ errqueue'[i] \notin inflight'
               /\ errqueue'[i] # wk.txfound
    <3>1. CASE i \in 1 .. Len(errqueue)
      BY <1>1, <1>2, <3>1 DEF StampInv
    <3>2. CASE i = m
      BY <1>1, <1>2, <2>1, <3>2
    <3> QED BY <1>3, <3>1, <3>2
  <2>3. ASSUME NEW i \in 1 .. Len(errqueue'), NEW j \in 1 .. Len(errqueue'),
               errqueue'[i] = errqueue'[j]
        PROVE  i = j
    <3>1. CASE i \in 1 .. Len(errqueue) /\ j \in 1 .. Len(errqueue)
      BY <1>2, <2>3, <3>1 DEF StampInv
    <3>2. CASE i = m \/ j = m
      BY <1>2, <1>3, <2>1, <2>3, <3>2
    <3> QED BY <1>3, <3>1, <3>2
  <2>4. \A i \in 1 .. Len(follows) : \A j \in 1 .. Len(errqueue') :
            follows[i].ts # errqueue'[j]
    BY <1>2, <1>3, <2>1 DEF StampInv
  <2> QED BY <1>1, <2>2, <2>3, <2>4 DEF StampInv
<1> QED BY <1>1, <1>4, <1>5, <1>6, SequenceUnchanged, PairUnchanged

-----------------------------------------------------------------------------
(***************************************************************************)
(* Every step preserves the invariant.                                     *)
(***************************************************************************)
LEMMA NextSafe == IInv /\ [Next]_vars => IInv'
<1> SUFFICES ASSUME IInv, [Next]_vars PROVE IInv'
  OBVIOUS
<1>1. ASSUME NEW c \in Client,
             \/ SendGeneral(c) \/ UpdateSync(c) \/ TakeSptp(c)
             \/ \E h \in Handler, q \in SeqID : UpdateSyncDelayReq(h, c, q)
      PROVE  IInv'
  BY <1>1, SendGeneralSafe, UpdateSyncMessageSafe, TakeSptpSafe, UpdateSyncSafe
<1>2. CASE SendSync
  BY <1>2, SendSyncSafe
<1>3. CASE SendRefused \/ SendFails \/ FollowUpFails
  <2>1. /\ Continue /\ UNCHANGED <<packetVars, kernelVars, follows>>
        /\ olderKernel => olderKernel'
        /\ olderKernel' \in BOOLEAN
    BY <1>3 DEF SendRefused, SendFails, FollowUpFails, IInv, TypeOK
  <2> QED BY <2>1, ContinueSafe
<1>4. CASE ReadTimeStampSeqID \/ ReadTXtimestamp \/ ReadExhausted
  BY <1>4, ReadSeqIDSafe, ReadTXSafe, ReadExhaustedSafe
<1>5. CASE FollowUp
  BY <1>5, FollowUpSafe
<1>6. ASSUME NEW p \in Packet, DeliverTimestamp(p)
      PROVE  IInv'
  BY <1>6, DeliverSafe
<1>7. CASE UNCHANGED vars
  <2> USE <1>7 DEF vars, askVars, setupVars, IInv
  <2>1. TypeOK' /\ AskInv' /\ WorkInv'
    BY DEF TypeOK, AskInv, WorkInv, Settled, Asking, Sending, OnWire
  <2>2. StampInv'
    BY DEF StampInv
  <2> QED BY <2>1, <2>2, SequenceUnchanged, PairUnchanged
<1>8. ASSUME NEW h \in Handler, UpdateAnnounceDelayReq(h)
      PROVE  IInv'
  BY <1>8, UpdateAnnounceSafe
<1> QED BY <1>1, <1>2, <1>3, <1>4, <1>5, <1>6, <1>7, <1>8 DEF Next, WorkerStep

(***************************************************************************)
(* IInv is an inductive invariant.                                         *)
(***************************************************************************)
THEOREM TxInvariance == Spec => []IInv
BY InitSafe, NextSafe, PTL DEF Spec

(***************************************************************************)
(* The variables of the worker and of its socket keep their types: in      *)
(* particular a sequence number fits in its width, the attempts stay       *)
(* within AttemptsTXTS, and a second packet names packets that exist.      *)
(***************************************************************************)
THEOREM TxTypeCorrect == Spec => []TypeOK
<1>1. IInv => TypeOK
  BY DEF IInv
<1> QED BY <1>1, TxInvariance, PTL

(***************************************************************************)
(* The Follow_Ups of a subscription are numbered without gap or repetition *)
(* (IncSequenceID), however many Syncs, timestamps and Follow_Ups are lost.*)
(***************************************************************************)
THEOREM FollowUpsNumbered == Spec => []FollowUpsConsecutive
<1>1. IInv => FollowUpsConsecutive
  BY DEF IInv
<1> QED BY <1>1, TxInvariance, PTL

(***************************************************************************)
(* On kernels with SCM_TS_OPT_ID the Sync, its Follow_Up and the id that   *)
(* the timestamp was chosen by agree.                                      *)
(***************************************************************************)
THEOREM SequenceNumbersAgree == Spec => []OneSequenceNumber
<1>1. IInv => OneSequenceNumber
  BY DEF IInv, PairInv
<1> QED BY <1>1, TxInvariance, PTL

(***************************************************************************)
(* An sptp answer has one sequence number in both its packets, unless a    *)
(* request of the client was stored during the answer or the stores of two *)
(* handlers overlapped before it.                                          *)
(***************************************************************************)
THEOREM AnswersPaired == Spec => []AnswerPaired
<1>1. IInv => AnswerPaired
  BY DEF IInv, PairInv
<1> QED BY <1>1, TxInvariance, PTL

(***************************************************************************)
(* No timestamp is used twice, none before its packet was sent.            *)
(***************************************************************************)
THEOREM TimestampsUsedOnce == Spec => []TimestampUsedOnce
<1>1. IInv => TimestampUsedOnce
  BY DEF IInv, StampInv, TimestampUsedOnce
<1> QED BY <1>1, TxInvariance, PTL

(***************************************************************************)
(* The UTC offset is added to software timestamps and to no other.         *)
(***************************************************************************)
THEOREM ServerTimeIsPTP == Spec => []PTPTime
<1>1. IInv => PTPTime
  BY DEF IInv, PairInv
<1> QED BY <1>1, TxInvariance, PTL

-----------------------------------------------------------------------------
(***************************************************************************)
(* What follows from the invariant for the whole history of packets.  The  *)
(* proofs look at the first packet that is wrong.                          *)
(***************************************************************************)
\* A set of numbers has a least one.
LEMMA LeastNumber ==
    ASSUME NEW T, T \subseteq Nat, T # {}
    PROVE  \E x \in T : \A y \in T : x <= y
<1> DEFINE R == OpToRel(<, Nat)
<1>1. IsWellFoundedOn(R, Nat)
  BY NatLessThanWellFounded, Zenon
<1>2. PICK x \in T : \A y \in T : <<y, x>> \notin R
  <2> HIDE DEF R
  <2> QED BY <1>1, WFMin
<1>3. \A y \in T : ~ (y < x)
  BY <1>2 DEF OpToRel
<1> QED BY <1>3

\* The packets up to k got their second packet.
NoneMissed(k) == \A p \in 1 .. k : \E i \in 1 .. Len(follows) : follows[i].pkt = p

(***************************************************************************)
(* As long as no packet was left without its second one, every second      *)
(* packet has the timestamp of the first: a timestamp can only be taken    *)
(* for another after one was missed (ReadExhausted) or its Follow_Up was   *)
(* not sent, on kernels of either kind.                                    *)
(***************************************************************************)
OwnWhileNoneMissed ==
    \A k \in Packet : NoneMissed(k) =>
        \A i \in 1 .. Len(follows) : follows[i].pkt <= k => follows[i].ts = follows[i].pkt

\* The first wrong packet would have taken the timestamp of a right one.
LEMMA OwnTimestamps ==
    ASSUME TypeOK, TimestampUsedOnce
    PROVE  OwnWhileNoneMissed
<1> SUFFICES ASSUME NEW k \in Packet, NoneMissed(k)
             PROVE  \A i \in 1 .. Len(follows) :
                        follows[i].pkt <= k => follows[i].ts = follows[i].pkt
  BY DEF OwnWhileNoneMissed
<1> DEFINE Wrong(i) == follows[i].pkt <= k /\ follows[i].ts # follows[i].pkt
           T == {follows[i].pkt : i \in {j \in 1 .. Len(follows) : Wrong(j)}}
<1> SUFFICES ASSUME T # {} PROVE FALSE
  OBVIOUS
<1>1. \A i \in 1 .. Len(follows) :
          follows[i].pkt \in Nat \ {0} /\ follows[i].ts \in Nat \ {0}
  BY Elements
<1>2. T \subseteq Nat
  BY <1>1
<1>3. PICK p \in T : \A q \in T : p <= q
  <2> HIDE DEF T
  <2> QED BY <1>2, LeastNumber
<1>4. PICK i \in 1 .. Len(follows) : Wrong(i) /\ follows[i].pkt = p
  BY <1>3
<1>5. follows[i].ts \in 1 .. k /\ follows[i].ts < p
  BY <1>1, <1>4 DEF TimestampUsedOnce, Packet
<1>6. PICK j \in 1 .. Len(follows) : follows[j].pkt = follows[i].ts
  BY <1>5 DEF NoneMissed
<1>7. ~ Wrong(j)
  <2> SUFFICES ASSUME Wrong(j) PROVE FALSE
    OBVIOUS
  <2>1. follows[j].pkt \in T
    OBVIOUS
  <2>2. p <= follows[j].pkt /\ p \in Nat
    BY <1>2, <1>3, <2>1
  <2> QED BY <1>1, <1>5, <1>6, <2>2
<1>8. follows[j].ts = follows[i].ts
  BY <1>5, <1>6, <1>7
<1>9. j = i
  BY <1>8 DEF TimestampUsedOnce
<1> QED BY <1>4, <1>6, <1>9

\* The second packets of c before the i-th of all.
Before(c, i) == {j \in Follows(c) : j < i}

(***************************************************************************)
(* The n-th Follow_Up of a subscription has the number n - 1, modulo the   *)
(* width of the counter: two with one number are a full turn apart.        *)
(***************************************************************************)
FollowUpNumbers ==
    \A c \in Client : Kind[c] = Sync =>
        \A i \in Follows(c) : follows[i].seq = Cardinality(Before(c, i)) % SeqMod

\* Counting modulo M.
LEMMA NextModulo ==
    ASSUME NEW n \in Nat, NEW M \in Nat \ {0}
    PROVE  ((n % M) + 1) % M = (n + 1) % M
<1>1. /\ n \div M \in Nat /\ n % M \in 0 .. M - 1
      /\ n = M * (n \div M) + (n % M)
  OBVIOUS
<1> DEFINE a == n \div M
           r == n % M
<1>2. a \in Nat /\ r \in 0 .. M - 1 /\ n = M * a + r
  BY <1>1
<1> HIDE DEF a, r
<1>3. CASE r + 1 < M
  <2>1. n + 1 = M * a + (r + 1) /\ r + 1 \in 0 .. M - 1
    BY <1>2, <1>3
  <2>2. (n + 1) % M = r + 1
    BY <1>2, <2>1
  <2>3. (r + 1) % M = r + 1
    BY <1>2, <2>1
  <2> QED BY <2>2, <2>3 DEF r
<1>4. CASE r + 1 = M
  <2>1. n + 1 = M * (a + 1) + 0 /\ a + 1 \in Nat
    BY <1>2, <1>4
  <2>2. (n + 1) % M = 0
    BY <1>2, <2>1
  <2>3. (r + 1) % M = 0
    BY <1>2, <1>4
  <2> QED BY <2>2, <2>3 DEF r
<1> QED BY <1>2, <1>3, <1>4

\* Each number follows from the one before.
LEMMA NumbersInOrder ==
    ASSUME TypeOK, FollowUpsConsecutive
    PROVE  FollowUpNumbers
<1> SUFFICES ASSUME NEW c \in Client, Kind[c] = Sync
             PROVE  \A i \in Follows(c) : follows[i].seq = Cardinality(Before(c, i)) % SeqMod
  BY DEF FollowUpNumbers
<1> DEFINE T == {i \in Follows(c) : follows[i].seq # Cardinality(Before(c, i)) % SeqMod}
<1> SUFFICES ASSUME T # {} PROVE FALSE
  OBVIOUS
<1>0. Len(follows) \in Nat /\ SeqMod \in Nat \ {0}
  BY LenProperties, TxAssumption DEF TypeOK
<1>1. Follows(c) \subseteq 1 .. Len(follows) /\ T \subseteq Follows(c)
  BY DEF Follows
<1>2. PICK i \in T : \A j \in T : i <= j
  <2>1. T \subseteq Nat
    BY <1>0, <1>1
  <2> HIDE DEF T
  <2> QED BY <2>1, LeastNumber
<1>3. i \in Follows(c) /\ i \in Nat /\ follows[i].seq # Cardinality(Before(c, i)) % SeqMod
  BY <1>0, <1>1, <1>2
<1>4. \A j \in Follows(c) : /\ IsFiniteSet(Before(c, j)) /\ Cardinality(Before(c, j)) \in Nat
                            /\ j \in Nat
  <2> SUFFICES ASSUME NEW j \in Follows(c)
               PROVE  IsFiniteSet(Before(c, j)) /\ Cardinality(Before(c, j)) \in Nat /\ j \in Nat
    OBVIOUS
  <2>1. IsFiniteSet(1 .. Len(follows))
    BY <1>0, FS_Interval
  <2>2. Before(c, j) \subseteq 1 .. Len(follows)
    BY <1>1 DEF Before
  <2>3. IsFiniteSet(Before(c, j))
    BY <2>1, <2>2, FS_Subset
  <2>4. Cardinality(Before(c, j)) \in Nat
    BY <2>3, FS_CardinalityType
  <2>5. j \in Nat
    BY <1>0, <1>1
  <2> QED BY <2>3, <2>4, <2>5
<1>5. \A j \in Follows(c) : j \in Nat
  BY <1>4
<1>6. CASE follows[i].seq = 0 /\ \A j \in Follows(c) : j >= i
  <2>1. Before(c, i) = {}
    <3> SUFFICES ASSUME NEW j \in Before(c, i) PROVE FALSE
      OBVIOUS
    <3>1. j \in Follows(c) /\ j < i
      BY DEF Before
    <3> QED BY <1>1, <1>3, <1>6, <1>5, <3>1
  <2>2. Cardinality(Before(c, i)) = 0
    BY <2>1, FS_EmptySet
  <2>3. 0 % SeqMod = 0
    BY <1>0
  <2> QED BY <1>3, <1>6, <2>2, <2>3
<1>7. ASSUME NEW j \in Follows(c), j < i, \A k \in Follows(c) : k <= j \/ k >= i,
             follows[i].seq = (follows[j].seq + 1) % SeqMod
      PROVE  FALSE
  <2>1. j \notin T
    BY <1>2, <1>3, <1>4, <1>7
  <2>2. follows[j].seq = Cardinality(Before(c, j)) % SeqMod
    BY <2>1
  <2>3. Before(c, i) = Before(c, j) \cup {j} /\ j \notin Before(c, j)
    <3>1. \A k \in Follows(c) : k < i <=> k < j \/ k = j
      BY <1>3, <1>7, <1>5
    <3>2. ~ (j < j)
      BY <1>5
    <3> QED BY <1>7, <3>1, <3>2 DEF Before
  <2>4. Cardinality(Before(c, i)) = Cardinality(Before(c, j)) + 1
    BY <1>4, <2>3, FS_AddElement
  <2> DEFINE n == Cardinality(Before(c, j))
  <2>5. n \in Nat
    BY <1>4
  <2>6. follows[i].seq = ((n % SeqMod) + 1) % SeqMod
    BY <1>7, <2>2
  <2>7. follows[i].seq # (n + 1) % SeqMod
    BY <1>3, <2>4
  <2> HIDE DEF n
  <2> QED BY <1>0, <2>5, <2>6, <2>7, NextModulo
<1> QED BY <1>3, <1>6, <1>7 DEF FollowUpsConsecutive

(***************************************************************************)
(* A Follow_Up has a timestamp that is not its own only after some Sync    *)
(* went without one.  This is what is left of OwnTimestamp, which the code *)
(* does not keep; it needs no ids, so it holds for older kernels, too.     *)
(***************************************************************************)
THEOREM OwnUntilOneIsMissed == Spec => []OwnWhileNoneMissed
BY OwnTimestamps, TxTypeCorrect, TimestampsUsedOnce, PTL

(***************************************************************************)
(* The number of every Follow_Up, in closed form, across all wraps of the  *)
(* 16-bit counter (IncSequenceID).                                         *)
(***************************************************************************)
THEOREM FollowUpsCounted == Spec => []FollowUpNumbers
BY NumbersInOrder, TxTypeCorrect, FollowUpsNumbered, PTL

=============================================================================
