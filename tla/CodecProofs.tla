---------------------------- MODULE CodecProofs -----------------------------
(***************************************************************************)
(* Proofs about Codec: for all packet, message, TLV and text lengths, the  *)
(* decoder stays within the bytes received, its loop is bounded, and what   *)
(* this package encodes it decodes.                                        *)
(***************************************************************************)
EXTENDS Codec, SequenceTheorems, TLAPS

WireTLV == [type : TLVKind, len : 0..MaxUint16, text : 0..MaxUint8]

WireMessage ==
    [kind : MessageKind, MessageLength : 0..MaxUint16, tlvs : Seq(WireTLV),
     at : Seq(Nat), size : Nat]

(***************************************************************************)
(* The inductive invariant.  While readTLVs runs, MessageLength has been   *)
(* checked against the bytes received, which is what puts a TLV header     *)
(* below maxLength within the buffer; and every TLV decoded so far took at *)
(* least six bytes of what pos has passed.                                 *)
(***************************************************************************)
LengthChecked == pc = "tlvs" => CheckPacketLength

FreshMessage == pc = "unmarshal" => tlvs = <<>> /\ result = "none"

TLVsBehindPos == pc = "tlvs" => 6 * Len(tlvs) <= pos

IInv ==
    /\ TypeOK /\ InBounds /\ LoopBounded
    /\ LengthChecked /\ FreshMessage /\ TLVsBehindPos

-----------------------------------------------------------------------------
(***************************************************************************)
(* The sizes of the fixed parts (Announce 64, Delay_Resp 54, others 44).   *)
(***************************************************************************)
LEMMA FixedSizes ==
    ASSUME NEW kind
    PROVE  FixedSize(kind) \in Nat /\ FixedSize(kind) \in headerSize..64
BY DEF FixedSize, AnnounceSize, SyncDelayReqSize, FollowUpSize, DelayRespSize, SignalingSize,
     headerSize

(***************************************************************************)
(* The ranges of the fields: their bounds are kept abstract in the proofs. *)
(***************************************************************************)
LEMMA Ranges == MaxUint16 \in Nat /\ MaxUint16 >= 1000 /\ MaxUint8 \in Nat
BY DEF MaxUint16, MaxUint8

(***************************************************************************)
(* An ALTERNATE_TIME_OFFSET_INDICATOR takes at most 276 bytes.             *)
(***************************************************************************)
LEMMA NameSizes ==
    ASSUME NEW n \in 0..MaxUint8
    PROVE  AlternateTimeOffsetSize(n) \in 19..276
<1>1. n \in Nat /\ n <= 255
  BY DEF MaxUint8
<1>2. TextSize(n) \in Nat /\ TextSize(n) <= 257
  BY <1>1 DEF TextSize
<1> QED
  BY <1>1, <1>2 DEF AlternateTimeOffsetSize, tlvHeadSize

(***************************************************************************)
(* A TLV on the wire takes at most 300 bytes.                              *)
(***************************************************************************)
LEMMA TLVSizes ==
    ASSUME NEW t \in WireTLV
    PROVE  TLVSize(t) \in 0..300
<1>1. AlternateTimeOffsetSize(t.text) \in 0..300
  <2>1. AlternateTimeOffsetSize(t.text) \in 19..276
    BY NameSizes DEF WireTLV
  <2> QED BY <2>1
<1> QED
  BY <1>1 DEF TLVSize, RequestSize, GrantSize, CancelSize, AckCancelSize,
       AlternateResponsePortSize, tlvHeadSize

(***************************************************************************)
(* A message without TLVs.                                                 *)
(***************************************************************************)
LEMMA MessageTyped ==
    ASSUME NEW kind \in MessageKind, NEW n \in 0..MaxUint16
    PROVE  /\ Message(kind, n) \in WireMessage
           /\ Message(kind, n).size = FixedSize(kind)
<1>1. FixedSize(kind) \in Nat
  BY FixedSizes
<1>2. <<>> \in Seq(Nat) /\ <<>> \in Seq(WireTLV)
  OBVIOUS
<1> QED
  BY <1>1, <1>2 DEF Message, WireMessage

(***************************************************************************)
(* A message stays one with a TLV more.                                    *)
(***************************************************************************)
LEMMA WriteTyped ==
    ASSUME NEW m \in WireMessage, NEW t \in WireTLV
    PROVE  WriteTLV(m, t) \in WireMessage
<1>1. TLVSize(t) \in Nat
  BY TLVSizes
<1>2. /\ m.size \in Nat /\ m.at \in Seq(Nat) /\ m.tlvs \in Seq(WireTLV)
      /\ m.kind \in MessageKind /\ m.MessageLength \in 0..MaxUint16
  BY DEF WireMessage
<1>3. Append(m.at, m.size) \in Seq(Nat) /\ Append(m.tlvs, t) \in Seq(WireTLV)
  BY <1>2
<1>4. m.size + TLVSize(t) \in Nat
  BY <1>1, <1>2
<1> QED
  BY <1>2, <1>3, <1>4 DEF WriteTLV, WireMessage

(***************************************************************************)
(* Every message this package makes has a MessageLength of 16 bits and     *)
(* TLVs whose fields fit theirs.                                           *)
(***************************************************************************)
LEMMA MessagesTyped ==
    {Unknown} \cup ServerMessages \cup ClientMessages \subseteq WireMessage
<1>1. ASSUME NEW type \in TLVKind, NEW len \in 0..MaxUint16, NEW text \in 0..MaxUint8
      PROVE  TLV(type, len, text) \in WireTLV
  BY DEF TLV, WireTLV
<1>2. /\ "Grant" \in TLVKind /\ "Cancel" \in TLVKind /\ "Request" \in TLVKind
      /\ "AckCancel" \in TLVKind /\ "AlternateResponsePort" \in TLVKind
      /\ "AlternateTimeOffset" \in TLVKind
  BY DEF TLVKind, KnownTLV, StrictTLV
<1>3. /\ "Sync" \in MessageKind /\ "FollowUp" \in MessageKind /\ "Announce" \in MessageKind
      /\ "DelayResp" \in MessageKind /\ "DelayReq" \in MessageKind
      /\ "Signaling" \in MessageKind /\ "Other" \in MessageKind
  BY DEF MessageKind
<1>4. {Unknown, InitSync, InitFollowup, InitAnnounce, InitDelayResp} \subseteq WireMessage
  <2>1. /\ 0 \in 0..MaxUint16 /\ headerSize + 10 \in 0..MaxUint16
        /\ headerSize + 20 \in 0..MaxUint16 /\ headerSize + 30 \in 0..MaxUint16
    BY Ranges DEF headerSize
  <2> QED
    BY <1>3, <2>1, MessageTyped DEF Unknown, InitSync, InitFollowup, InitAnnounce, InitDelayResp
<1>5. UpdateSignalingGrant \in WireMessage /\ UpdateSignalingCancel \in WireMessage
  <2>1. /\ headerSize + 10 + GrantSize \in 0..MaxUint16
        /\ headerSize + 10 + CancelSize \in 0..MaxUint16
        /\ GrantSize - tlvHeadSize \in 0..MaxUint16
        /\ CancelSize - tlvHeadSize \in 0..MaxUint16 /\ 0 \in 0..MaxUint8
    BY Ranges DEF headerSize, GrantSize, CancelSize, tlvHeadSize
  <2>2. /\ TLV("Grant", GrantSize - tlvHeadSize, 0) \in WireTLV
        /\ TLV("Cancel", CancelSize - tlvHeadSize, 0) \in WireTLV
    BY <1>1, <1>2, <2>1
  <2>3. /\ Message("Signaling", headerSize + 10 + GrantSize) \in WireMessage
        /\ Message("Signaling", headerSize + 10 + CancelSize) \in WireMessage
    BY <1>3, <2>1, MessageTyped
  <2> QED
    BY <2>2, <2>3, WriteTyped DEF UpdateSignalingGrant, UpdateSignalingCancel
<1>6. ASSUME NEW kind \in MessageKind, NEW t \in WireTLV, NEW u \in WireTLV
      PROVE  OneTLV(kind, t) \in WireMessage /\ TwoTLVs(kind, t, u) \in WireMessage
  <2>1. /\ FixedSize(kind) + TLVSize(t) \in 0..MaxUint16
        /\ FixedSize(kind) + TLVSize(t) + TLVSize(u) \in 0..MaxUint16
    <3>1. FixedSize(kind) \in 0..64
      BY FixedSizes DEF headerSize
    <3>2. TLVSize(t) \in 0..300 /\ TLVSize(u) \in 0..300
      BY TLVSizes
    <3>3. \A a \in 0..64, b \in 0..300, c \in 0..300 :
             a + b \in 0..MaxUint16 /\ a + b + c \in 0..MaxUint16
      BY Ranges
    <3> QED BY <3>1, <3>2, <3>3
  <2>2. /\ Message(kind, FixedSize(kind) + TLVSize(t)) \in WireMessage
        /\ Message(kind, FixedSize(kind) + TLVSize(t) + TLVSize(u)) \in WireMessage
    BY <2>1, MessageTyped
  <2> QED
    BY <2>2, WriteTyped DEF OneTLV, TwoTLVs
<1>7. Requests \cup DelayRequests \subseteq WireMessage
  <2>1. 6 \in 0..MaxUint16 /\ 2 \in 0..MaxUint16 /\ 0 \in 0..MaxUint8
    BY Ranges
  <2>2. /\ TLV("Request", 6, 0) \in WireTLV /\ TLV("AckCancel", 2, 0) \in WireTLV
        /\ TLV("Cancel", 2, 0) \in WireTLV
        /\ TLV("AlternateResponsePort", 2, 0) \in WireTLV
    BY <1>1, <1>2, <2>1
  <2>3. Message("DelayReq", FixedSize("DelayReq")) \in WireMessage
    <3>1. FixedSize("DelayReq") \in 0..MaxUint16
      BY FixedSizes, Ranges DEF headerSize
    <3> QED BY <1>3, <3>1, MessageTyped
  <2> QED
    BY <1>3, <1>6, <2>2, <2>3 DEF Requests, DelayRequests
<1>8. AnnounceNames \subseteq WireMessage
  <2>1. ASSUME NEW n \in NameLengths
        PROVE  OneTLV("Announce",
                      TLV("AlternateTimeOffset", AlternateTimeOffsetSize(n) - tlvHeadSize, n))
                 \in WireMessage
    <3>1. n \in 0..MaxUint8
      BY CodecAssumption
    <3>2. AlternateTimeOffsetSize(n) - tlvHeadSize \in 0..MaxUint16
      <4>1. AlternateTimeOffsetSize(n) \in 19..276
        BY <3>1, NameSizes
      <4> QED BY <4>1, Ranges DEF tlvHeadSize
    <3> QED BY <1>1, <1>2, <1>3, <1>6, <3>1, <3>2
  <2> QED
    BY <2>1 DEF AnnounceNames
<1> QED
  BY <1>4, <1>5, <1>7, <1>8 DEF ServerMessages, ClientMessages

(***************************************************************************)
(* The bytes at pos, read as a TLV, have fields of 16 and 8 bits.          *)
(***************************************************************************)
LEMMA TLVsHereTyped ==
    ASSUME TypeOK
    PROVE  TLVsHere \subseteq WireTLV
<1>1. FreeTLVs \subseteq WireTLV
  <2>1. 0 \in 0..MaxUint8
    BY Ranges
  <2>2. "AlternateTimeOffset" \in TLVKind
    BY DEF TLVKind, KnownTLV
  <2>3. LengthFields \subseteq 0..MaxUint16 /\ TextLengths \subseteq 0..MaxUint8
    BY CodecAssumption
  <2> QED
    BY <2>1, <2>2, <2>3 DEF FreeTLVs, WireTLV
<1>2. ZeroBytes \in WireTLV
  BY Ranges DEF ZeroBytes, TLV, WireTLV, TLVKind
<1>3. ASSUME made # Unknown, NEW i \in 1..Len(made.tlvs)
      PROVE  made.tlvs[i] \in WireTLV
  <2>1. made \in WireMessage
    BY MessagesTyped DEF TypeOK
  <2> QED
    BY <2>1, <1>3 DEF WireMessage
<1> QED
  BY <1>1, <1>2, <1>3 DEF TLVsHere

(***************************************************************************)
(* A TLV that passes checkTLVLength, and whose text fits if it has one, is *)
(* decoded from bytes of the buffer, and has a LengthField of at least 2.  *)
(***************************************************************************)
LEMMA BodyInBounds ==
    ASSUME TypeOK, NEW t \in WireTLV, t.type \in KnownTLV, CheckTLVLength(t)
    PROVE  /\ BodyRead(t) \in Nat /\ BodyRead(t) <= Rest
           /\ t.type = "PathTrace" => PathSequence(t) \in Nat
           /\ t.len >= 2
<1>1. Rest \in Int /\ t.len \in Nat /\ t.text \in Nat /\ t.len <= Rest - 4
  <2>1. FixedSize(packet.kind) \in Nat
    BY FixedSizes
  <2>2. packet.size \in Nat /\ pos \in Nat
    BY DEF TypeOK
  <2>3. t.len \in Nat /\ t.text \in Nat
    <3>1. t.len \in 0..MaxUint16 /\ t.text \in 0..MaxUint8
      BY DEF WireTLV
    <3> QED BY <3>1, Ranges
  <2> QED
    BY <2>1, <2>2, <2>3 DEF Rest, CheckTLVLength, tlvHeadSize
<1>2. CASE t.type = "PathTrace"
  <2>1. t.len >= 8
    BY <1>2 DEF CheckTLVLength, Want, PathTraceLength
  <2>2. PathSequence(t) \in Nat /\ 8 * PathSequence(t) <= Rest - 5
    BY <1>1, <2>1 DEF PathSequence, Smaller, tlvHeadSize
  <2> QED
    BY <1>1, <1>2, <2>1, <2>2 DEF BodyRead, tlvHeadSize
<1>3. CASE t.type = "AlternateTimeOffset"
  <2>1. t.len >= 20
    BY <1>3 DEF CheckTLVLength, Want, AlternateTimeOffsetLength
  <2>2. TextFits(t) => t.text <= Larger(0, Rest - 20)
    BY <1>1 DEF TextFits, tlvHeadSize, Larger
  <2> QED
    BY <1>1, <1>3, <2>1, <2>2 DEF BodyRead, tlvHeadSize, Larger
<1>4. CASE t.type \in StrictTLV
  BY <1>1, <1>4 DEF StrictTLV, BodyRead, Want, RequestLength, GrantLength, CancelLength,
       AckCancelLength, AlternateResponsePortLength, CheckTLVLength, tlvHeadSize
<1> QED
  BY <1>2, <1>3, <1>4 DEF KnownTLV

-----------------------------------------------------------------------------
(***************************************************************************)
(* A received packet: the entry points set it, its TLVs and how far it was *)
(* read; they leave the loop's state consistent.                           *)
(***************************************************************************)
LEMMA ReceiveStep ==
    ASSUME IInv, ReceiveAny \/ ReceiveRequest \/ ReceiveResponse
    PROVE  IInv'
<1>1. PICK kind, size, ml, m : Arrive(kind, size, ml, m) /\ kind \in MessageKind
         /\ size \in Nat /\ ml \in 0..MaxUint16
         /\ m \in {Unknown} \cup ServerMessages \cup ClientMessages
  <2>1. CASE ReceiveAny
    BY <2>1, CodecAssumption DEF ReceiveAny
  <2>2. CASE ReceiveRequest
    <3>1. PICK m \in ClientMessages, e \in ExtraBytes :
             Arrive(m.kind, BytesTo(m) + e, m.MessageLength, m)
      BY <2>2 DEF ReceiveRequest
    <3>2. m \in WireMessage /\ e \in Nat
      BY MessagesTyped, CodecAssumption
    <3>3. m.kind \in MessageKind /\ m.MessageLength \in 0..MaxUint16 /\ BytesTo(m) + e \in Nat
      BY <3>2 DEF WireMessage, BytesTo
    <3> QED
      BY <3>1, <3>3
  <2>3. CASE ReceiveResponse
    <3>1. PICK m \in ServerMessages, e \in ExtraBytes :
             Arrive(m.kind, BytesTo(m) + e, m.MessageLength, m)
      BY <2>3 DEF ReceiveResponse
    <3>2. m \in WireMessage /\ e \in Nat
      BY MessagesTyped, CodecAssumption
    <3>3. m.kind \in MessageKind /\ m.MessageLength \in 0..MaxUint16 /\ BytesTo(m) + e \in Nat
      BY <3>2 DEF WireMessage, BytesTo
    <3> QED
      BY <3>1, <3>3
  <2> QED BY <2>1, <2>2, <2>3
<1>2. /\ pos' = 0 /\ received' \in 0..MaxPackets
      /\ packet' \in [kind : MessageKind, size : Nat, MessageLength : 0..MaxUint16]
      /\ made' \in {Unknown} \cup ServerMessages \cup ClientMessages
  BY <1>1, CodecAssumption DEF Arrive, ReceiveAny, ReceiveRequest, ReceiveResponse,
       ReadPacket, IInv, TypeOK
<1>3. DecodePacket \/ Handle("DelayReq") \/ Handle("Signaling")
  BY DEF ReceiveAny, ReceiveRequest, ReceiveResponse
<1>4. /\ top' \in Nat /\ top' <= packet'.size
      /\ \/ pc' = "receive" /\ result' \in {"error", "ignored"} /\ tlvs' = tlvs
         \/ pc' = "unmarshal" /\ result' = "none" /\ tlvs' = <<>>
  <2>1. packet'.size \in Nat
    BY <1>2
  <2>2. CASE DecodePacket
    BY <2>1, <2>2 DEF DecodePacket, Return, FromBytes, headerSize
  <2>3. ASSUME NEW handles, Handle(handles)
        PROVE  /\ top' \in Nat /\ top' <= packet'.size
               /\ \/ pc' = "receive" /\ result' \in {"error", "ignored"} /\ tlvs' = tlvs
                  \/ pc' = "unmarshal" /\ result' = "none" /\ tlvs' = <<>>
    BY <2>1, <2>3 DEF Handle, IgnoreMessage, ResetTLVs, Return, FromBytes
  <2> QED
    BY <1>3, <2>2, <2>3
<1>5. tlvs' \in Seq(DecodedTLV)
  <2>1. tlvs \in Seq(DecodedTLV) /\ <<>> \in Seq(DecodedTLV)
    BY DEF IInv, TypeOK
  <2> QED
    BY <1>4, <2>1
<1> QED
  BY <1>2, <1>4, <1>5 DEF IInv, TypeOK, InBounds, LoopBounded, LengthChecked, FreshMessage,
       TLVsBehindPos

(***************************************************************************)
(* UnmarshalBinary reads the fixed part only after its length checks.      *)
(***************************************************************************)
LEMMA UnmarshalInBounds ==
    ASSUME IInv, NEW kinds, NEW min \in Nat, Unmarshal(kinds, min),
           FixedSize(packet.kind) <= min
    PROVE  IInv'
<1>1. pc = "unmarshal"
  BY DEF Unmarshal
<1>2. /\ packet.size \in Nat /\ top \in Nat /\ top <= packet.size
      /\ pos \in Nat /\ tlvs = <<>> /\ result = "none"
      /\ FixedSize(packet.kind) \in Nat /\ 34 <= FixedSize(packet.kind)
  <2>1. FixedSize(packet.kind) \in Nat /\ 34 <= FixedSize(packet.kind)
    BY FixedSizes DEF headerSize
  <2>2. packet.size \in Nat /\ top \in Nat /\ pos \in Nat
    BY DEF IInv, TypeOK
  <2> QED
    BY <1>1, <2>1, <2>2 DEF IInv, InBounds, FreshMessage
<1>3. /\ top' \in Nat /\ top' <= packet.size
      /\ \/ pc' = "receive" /\ result' \in {"ok", "error"}
         \/ pc' = "tlvs" /\ result' = "none" /\ CheckPacketLength
  BY <1>2 DEF Unmarshal, Return, Reads, Larger, headerSize
<1>4. UNCHANGED <<received, packet, made, pos, tlvs>>
  BY DEF Unmarshal
<1>5. TypeOK'
  BY <1>3, <1>4 DEF IInv, TypeOK
<1>6. tlvs' = <<>> /\ Len(tlvs') = 0
  BY <1>2, <1>4
<1>7. InBounds' /\ LoopBounded' /\ LengthChecked' /\ FreshMessage'
  BY <1>3, <1>4, <1>6 DEF InBounds, LoopBounded, LengthChecked, FreshMessage, CheckPacketLength
<1>8. TLVsBehindPos'
  BY <1>2, <1>4, <1>6 DEF TLVsBehindPos
<1> QED
  BY <1>5, <1>7, <1>8 DEF IInv

(***************************************************************************)
(* Every UnmarshalBinary asks for at least the fixed part it reads.        *)
(***************************************************************************)
LEMMA UnmarshalStep ==
    ASSUME IInv, UnmarshalBinary
    PROVE  IInv'
<1> USE DEF headerSize, tlvHeadSize
<1>1. CASE UnmarshalAnnounce
  <2>1. packet.kind = "Announce"
    BY <1>1 DEF UnmarshalAnnounce, Unmarshal
  <2>2. FixedSize(packet.kind) <= headerSize + 30
    BY <2>1 DEF FixedSize, AnnounceSize
  <2> QED BY <1>1, <2>2, UnmarshalInBounds DEF UnmarshalAnnounce
<1>2. CASE UnmarshalSyncDelayReq
  <2>1. packet.kind \in {"Sync", "DelayReq"}
    BY <1>2 DEF UnmarshalSyncDelayReq, Unmarshal
  <2>2. FixedSize(packet.kind) <= headerSize + 10
    BY <2>1 DEF FixedSize, SyncDelayReqSize
  <2> QED BY <1>2, <2>2, UnmarshalInBounds DEF UnmarshalSyncDelayReq
<1>3. CASE UnmarshalFollowUp
  <2>1. packet.kind = "FollowUp"
    BY <1>3 DEF UnmarshalFollowUp, Unmarshal
  <2>2. FixedSize(packet.kind) <= headerSize + 10
    BY <2>1 DEF FixedSize, FollowUpSize
  <2> QED BY <1>3, <2>2, UnmarshalInBounds DEF UnmarshalFollowUp
<1>4. CASE UnmarshalDelayResp
  <2>1. packet.kind = "DelayResp"
    BY <1>4 DEF UnmarshalDelayResp, Unmarshal
  <2>2. FixedSize(packet.kind) <= headerSize + 20
    BY <2>1 DEF FixedSize, DelayRespSize
  <2> QED BY <1>4, <2>2, UnmarshalInBounds DEF UnmarshalDelayResp
<1>5. CASE UnmarshalSignaling
  <2>1. packet.kind = "Signaling"
    BY <1>5 DEF UnmarshalSignaling, Unmarshal
  <2>2. FixedSize(packet.kind) <= headerSize + 10 + tlvHeadSize
    BY <2>1 DEF FixedSize, SignalingSize
  <2> QED BY <1>5, <2>2, UnmarshalInBounds DEF UnmarshalSignaling
<1> QED
  BY <1>1, <1>2, <1>3, <1>4, <1>5 DEF UnmarshalBinary

(***************************************************************************)
(* The loop ends with the TLVs it has decoded.                             *)
(***************************************************************************)
LEMMA EndStep ==
    ASSUME IInv, EndTLVs
    PROVE  IInv'
<1>1. UNCHANGED <<received, packet, made, pos, tlvs, top>>
  BY DEF EndTLVs
<1>2. pc = "tlvs" /\ pc' = "receive" /\ result' \in {"ok", "error"}
  BY DEF EndTLVs, Return
<1>3. TypeOK'
  BY <1>1, <1>2 DEF IInv, TypeOK
<1>4. InBounds' /\ LengthChecked' /\ FreshMessage' /\ TLVsBehindPos'
  BY <1>1, <1>2 DEF IInv, InBounds, LengthChecked, FreshMessage, TLVsBehindPos
<1>5. LoopBounded'
  BY <1>1, <1>2 DEF IInv, LoopBounded, maxLength
<1> QED
  BY <1>3, <1>4, <1>5 DEF IInv

(***************************************************************************)
(* One turn of the loop.                                                   *)
(***************************************************************************)
LEMMA ReadStep ==
    ASSUME IInv, ReadTLV
    PROVE  IInv'
<1>1. PICK t \in WireTLV :
         ReadUnknownTLV(t) \/ RejectLength(t) \/ RejectText(t) \/ AppendTLV(t)
  BY TLVsHereTyped DEF IInv, ReadTLV
<1>2. UNCHANGED <<received, packet, made>> /\ pc = "tlvs" /\ MoreTLVs /\ CheckPacketLength
  BY DEF ReadTLV, IInv, LengthChecked
<1>3. /\ packet.size \in Nat /\ packet.MessageLength \in Nat /\ pos \in Nat /\ top \in Nat
      /\ top <= packet.size /\ tlvs \in Seq(DecodedTLV) /\ Len(tlvs) \in Nat
      /\ 6 * Len(tlvs) <= pos
  <2>1. /\ packet.size \in Nat /\ packet.MessageLength \in 0..MaxUint16 /\ pos \in Nat
        /\ top \in Nat /\ tlvs \in Seq(DecodedTLV)
    BY DEF IInv, TypeOK
  <2>2. packet.MessageLength \in Nat
    BY <2>1, Ranges
  <2>3. top <= packet.size /\ 6 * Len(tlvs) <= pos
    BY <1>2 DEF IInv, InBounds, TLVsBehindPos
  <2>4. Len(tlvs) \in Nat
    BY <2>1
  <2> QED BY <2>1, <2>2, <2>3, <2>4
<1>4. FixedSize(packet.kind) \in Nat
  BY FixedSizes
<1>5. /\ maxLength \in Int /\ pos + 4 <= maxLength
      /\ Rest \in Int /\ 4 <= Rest
  <2>1. pos + 4 <= packet.MessageLength - FixedSize(packet.kind)
    BY <1>2 DEF MoreTLVs, maxLength, tlvHeadSize
  <2>2. packet.MessageLength <= packet.size
    BY <1>2 DEF CheckPacketLength
  <2> QED
    BY <1>3, <1>4, <2>1, <2>2 DEF maxLength, Rest
<1>6. ASSUME NEW i \in Nat
       PROVE  At(i) \in Nat /\ (i <= Rest => At(i) <= packet.size)
  BY <1>3, <1>4 DEF Rest, At
<1>7. CASE ReadUnknownTLV(t) \/ RejectLength(t) \/ RejectText(t)
  <2>1. PICK i \in Nat : i <= Rest /\ Reads(At(i))
    <3>1. CASE ReadUnknownTLV(t)
      BY <3>1, <1>5 DEF ReadUnknownTLV
    <3>2. CASE RejectLength(t)
      BY <3>2, <1>5 DEF RejectLength, tlvHeadSize
    <3>3. CASE RejectText(t)
      <4>1. t.type \in KnownTLV /\ CheckTLVLength(t) /\ Reads(At(BodyRead(t)))
        BY <3>3 DEF RejectText, KnownTLV
      <4> QED BY <4>1, BodyInBounds DEF IInv
    <3> QED BY <1>7, <3>1, <3>2, <3>3
  <2>2. pc' = "receive" /\ result' = "error" /\ UNCHANGED <<pos, tlvs>>
    BY <1>7 DEF ReadUnknownTLV, RejectLength, RejectText, Return
  <2>3. top' \in Nat /\ top' <= packet.size
    <3>1. At(i) \in Nat /\ At(i) <= packet.size
      BY <1>6, <2>1
    <3> QED
      BY <1>3, <2>1, <3>1 DEF Reads, Larger
  <2>4. TypeOK'
    BY <1>2, <2>2, <2>3 DEF IInv, TypeOK
  <2> QED
    BY <1>2, <2>2, <2>3, <2>4 DEF IInv, InBounds, LoopBounded, LengthChecked, FreshMessage,
         TLVsBehindPos
<1>8. CASE AppendTLV(t)
  <2>1. /\ t.type \in KnownTLV /\ CheckTLVLength(t) /\ tlvs' = Append(tlvs, t)
        /\ pos' = pos + 4 + t.len /\ top' = Larger(top, At(BodyRead(t)))
        /\ UNCHANGED <<pc, result>>
    BY <1>8 DEF AppendTLV, NextPos, Reads, tlvHeadSize
  <2>2. /\ BodyRead(t) \in Nat /\ BodyRead(t) <= Rest /\ t.len >= 2
        /\ t.type = "PathTrace" => PathSequence(t) \in Nat
    BY <2>1, BodyInBounds DEF IInv
  <2>3. t.len \in 0..MaxUint16 /\ t.text \in 0..MaxUint8
    BY DEF WireTLV
  <2>4. t.len \in Nat
    BY <2>3, Ranges
  <2>5. At(BodyRead(t)) \in Nat /\ At(BodyRead(t)) <= packet.size
    BY <1>6, <2>2
  <2>6. t \in DecodedTLV
    BY <2>1, <2>3 DEF WireTLV, DecodedTLV
  <2>7. tlvs' \in Seq(DecodedTLV) /\ Len(tlvs') = Len(tlvs) + 1
    BY <1>3, <2>1, <2>6
  <2>8. /\ pos' \in Nat /\ top' \in Nat /\ top' <= packet.size
        /\ 6 * Len(tlvs') <= pos' /\ 6 * Len(tlvs') <= maxLength + 2
    <3>1. pos' \in Nat /\ 6 * Len(tlvs') <= pos' /\ 6 * Len(tlvs') <= maxLength + 2
      <4>1. \A n \in Nat, p \in Nat, l \in Nat, q \in Int :
               6 * n <= p /\ l >= 2 /\ p + 4 <= q =>
                 /\ p + 4 + l \in Nat
                 /\ 6 * (n + 1) <= p + 4 + l /\ 6 * (n + 1) <= q + 2
        OBVIOUS
      <4>2. maxLength \in Int /\ pos + 4 <= maxLength
        BY <1>5
      <4>3. /\ pos + 4 + t.len \in Nat /\ 6 * (Len(tlvs) + 1) <= pos + 4 + t.len
            /\ 6 * (Len(tlvs) + 1) <= maxLength + 2
        BY <1>3, <2>2, <2>4, <4>1, <4>2
      <4>4. pos' = pos + 4 + t.len /\ Len(tlvs') = Len(tlvs) + 1
        BY <2>1, <2>7
      <4> QED BY <4>3, <4>4
    <3>2. top' \in Nat /\ top' <= packet.size
      BY <1>3, <2>1, <2>5 DEF Larger
    <3> QED BY <3>1, <3>2
  <2>9. TypeOK'
    BY <1>2, <2>1, <2>7, <2>8 DEF IInv, TypeOK
  <2>10. InBounds' /\ LengthChecked' /\ FreshMessage' /\ TLVsBehindPos'
    BY <1>2, <2>1, <2>8 DEF IInv, InBounds, LengthChecked, CheckPacketLength, FreshMessage,
         TLVsBehindPos
  <2>11. LoopBounded'
    BY <1>2, <2>8 DEF LoopBounded, maxLength
  <2> QED
    BY <2>9, <2>10, <2>11 DEF IInv
<1> QED
  BY <1>1, <1>7, <1>8

-----------------------------------------------------------------------------
(***************************************************************************)
(* The inductive invariant holds throughout.                               *)
(***************************************************************************)
THEOREM CodecInvariance == Spec => []IInv
<1>1. Init => IInv
  <2>1. ASSUME Init PROVE TypeOK
    <3>1. <<>> \in Seq(DecodedTLV) /\ 0 \in 0..MaxUint16 /\ 0 \in 0..MaxPackets
      BY CodecAssumption, Ranges
    <3> QED
      BY <2>1, <3>1 DEF Init, TypeOK, MessageKind
  <2> QED
    BY <2>1 DEF Init, IInv, InBounds, LoopBounded, LengthChecked, FreshMessage, TLVsBehindPos
<1>2. ASSUME IInv, [Next]_vars PROVE IInv'
  <2>1. CASE UNCHANGED vars
    BY <1>2, <2>1 DEF vars, IInv, TypeOK, InBounds, LoopBounded, LengthChecked, FreshMessage,
         TLVsBehindPos, maxLength, CheckPacketLength
  <2> QED
    BY <1>2, <2>1, ReceiveStep, UnmarshalStep, ReadStep, EndStep DEF Next
<1> QED
  BY <1>1, <1>2, PTL DEF Spec

(***************************************************************************)
(* The decoder's variables keep their types, for all sizes and lengths.    *)
(***************************************************************************)
THEOREM CodecTypeCorrect == Spec => []TypeOK
<1>1. IInv => TypeOK
  BY DEF IInv
<1> QED
  BY <1>1, CodecInvariance, PTL

(***************************************************************************)
(* No packet of any size, with any MessageLength and any TLVs, makes       *)
(* UnmarshalBinary or readTLVs index past the bytes received.              *)
(***************************************************************************)
THEOREM DecoderInBounds == Spec => []InBounds
<1>1. IInv => InBounds
  BY DEF IInv
<1> QED
  BY <1>1, CodecInvariance, PTL

(***************************************************************************)
(* readTLVs decodes at most one TLV for every six bytes of the message.    *)
(***************************************************************************)
THEOREM DecoderBounded == Spec => []LoopBounded
<1>1. IInv => LoopBounded
  BY DEF IInv
<1> QED
  BY <1>1, CodecInvariance, PTL

-----------------------------------------------------------------------------
(***************************************************************************)
(* What this package encodes.  The LengthField of a TLV is the number of   *)
(* bytes written for it, the one the decoder wants, and leaves room for    *)
(* its text; TLVs follow each other from the fixed part to the end of the  *)
(* message, which is at its MessageLength.                                 *)
(***************************************************************************)
Encoded(t) ==
    /\ t \in WireTLV /\ t.type \in StrictTLV \cup {"AlternateTimeOffset"}
    /\ TLVSize(t) = 4 + t.len
    /\ t.len >= Want(t.type) /\ (t.type \in StrictTLV => t.len = Want(t.type))
    /\ t.type = "AlternateTimeOffset" => t.len >= 16 + t.text

EndOf(m, i) == IF i = 0 THEN FixedSize(m.kind) ELSE m.at[i] + 4 + m.tlvs[i].len

WellFormed(m) ==
    /\ m \in WireMessage /\ m.kind # "Other"
    /\ m.MessageLength = m.size /\ m.size = EndOf(m, Len(m.tlvs))
    /\ \A i \in 1 .. Len(m.tlvs) :
        /\ Encoded(m.tlvs[i])
        /\ m.at[i] = EndOf(m, i - 1) /\ m.at[i] \in Nat /\ EndOf(m, i) <= m.size
        /\ \A j \in 1 .. Len(m.tlvs) : m.at[i] = m.at[j] => i = j
    /\ m.kind \notin WithTLVs => m.tlvs = <<>>
    /\ m.kind = "Signaling" => Len(m.tlvs) > 0

\* A display name has three bytes or more.
LongNames == \A n \in NameLengths : n >= 3

\* A message without TLVs is well formed.
LEMMA NoTLVFormed ==
    ASSUME NEW kind \in MessageKind \ {"Other", "Signaling"}
    PROVE  WellFormed(Message(kind, FixedSize(kind)))
<1> DEFINE m == Message(kind, FixedSize(kind))
<1>1. FixedSize(kind) \in 0..MaxUint16
  BY FixedSizes, Ranges DEF headerSize
<1>2. m \in WireMessage
  BY <1>1, MessageTyped
<1>3. /\ m.kind = kind /\ m.MessageLength = FixedSize(kind) /\ m.size = FixedSize(kind)
      /\ m.tlvs = <<>>
  BY DEF Message
<1>4. Len(m.tlvs) = 0
  BY <1>3
<1> HIDE DEF m
<1>5. \A i : i \notin 1 .. Len(m.tlvs)
  BY <1>4
<1>6. WellFormed(m)
  BY <1>2, <1>3, <1>4, <1>5 DEF WellFormed, EndOf
<1> QED BY <1>6 DEF m

\* With one TLV.
LEMMA OneTLVFormed ==
    ASSUME NEW kind \in WithTLVs, NEW t, Encoded(t)
    PROVE  WellFormed(OneTLV(kind, t))
<1> DEFINE m == OneTLV(kind, t)
           z == FixedSize(kind)
<1>1. z \in Nat /\ z <= 64
  BY FixedSizes DEF headerSize
<1>2. TLVSize(t) = 4 + t.len /\ TLVSize(t) \in Nat /\ TLVSize(t) <= 300 /\ t.len \in Nat
  <2>1. t.len \in 0..MaxUint16
    BY DEF Encoded, WireTLV
  <2> QED BY <2>1, TLVSizes, Ranges DEF Encoded
<1>3. z + TLVSize(t) \in 0..MaxUint16
  BY <1>1, <1>2, Ranges
<1>4. m \in WireMessage
  <2>1. Message(kind, z + TLVSize(t)) \in WireMessage
    BY <1>3, MessageTyped DEF WithTLVs, MessageKind
  <2> QED BY <2>1, WriteTyped DEF OneTLV, Encoded
<1>5. /\ m.kind = kind /\ m.MessageLength = z + TLVSize(t) /\ m.size = z + TLVSize(t)
      /\ m.tlvs = Append(<<>>, t) /\ m.at = Append(<<>>, z)
  BY DEF OneTLV, WriteTLV, Message
<1>6. Len(m.tlvs) = 1 /\ m.tlvs[1] = t /\ m.at[1] = z
  BY <1>5
<1> HIDE DEF m, z
<1>7. /\ EndOf(m, 1) = z + 4 + t.len /\ EndOf(m, 0) = z /\ EndOf(m, 1) = m.size
  BY <1>1, <1>2, <1>5, <1>6 DEF EndOf, z
<1>8. m.size <= m.size
  BY <1>1, <1>2, <1>5
<1>9. \A i \in 1 .. Len(m.tlvs) : i = 1 /\ i - 1 = 0
  BY <1>6
<1>10. \A i \in 1 .. Len(m.tlvs) :
        /\ Encoded(m.tlvs[i])
        /\ m.at[i] = EndOf(m, i - 1) /\ m.at[i] \in Nat /\ EndOf(m, i) <= m.size
        /\ \A j \in 1 .. Len(m.tlvs) : m.at[i] = m.at[j] => i = j
  BY <1>1, <1>6, <1>7, <1>8, <1>9
<1>11. WellFormed(m)
  BY <1>4, <1>5, <1>6, <1>7, <1>10 DEF WellFormed, WithTLVs
<1> QED BY <1>11 DEF m

\* With two TLVs.
LEMMA TwoTLVsFormed ==
    ASSUME NEW kind \in WithTLVs, NEW t, NEW u, Encoded(t), Encoded(u)
    PROVE  WellFormed(TwoTLVs(kind, t, u))
<1> DEFINE m == TwoTLVs(kind, t, u)
           z == FixedSize(kind)
<1>1. z \in Nat /\ z <= 64
  BY FixedSizes DEF headerSize
<1>2. /\ TLVSize(t) = 4 + t.len /\ TLVSize(t) \in Nat /\ TLVSize(t) <= 300 /\ t.len \in Nat
      /\ TLVSize(u) = 4 + u.len /\ TLVSize(u) \in Nat /\ TLVSize(u) <= 300 /\ u.len \in Nat
  <2>1. t.len \in 0..MaxUint16 /\ u.len \in 0..MaxUint16
    BY DEF Encoded, WireTLV
  <2> QED BY <2>1, TLVSizes, Ranges DEF Encoded
<1>3. z + TLVSize(t) + TLVSize(u) \in 0..MaxUint16
  BY <1>1, <1>2, Ranges
<1>4. m \in WireMessage
  <2>1. Message(kind, z + TLVSize(t) + TLVSize(u)) \in WireMessage
    BY <1>3, MessageTyped DEF WithTLVs, MessageKind
  <2> QED BY <2>1, WriteTyped DEF TwoTLVs, Encoded
<1>5. /\ m.kind = kind /\ m.MessageLength = z + TLVSize(t) + TLVSize(u)
      /\ m.size = z + TLVSize(t) + TLVSize(u)
      /\ m.tlvs = Append(Append(<<>>, t), u)
      /\ m.at = Append(Append(<<>>, z), z + TLVSize(t))
  BY DEF TwoTLVs, WriteTLV, Message
<1>6. /\ Len(m.tlvs) = 2 /\ m.tlvs[1] = t /\ m.tlvs[2] = u
      /\ m.at[1] = z /\ m.at[2] = z + TLVSize(t)
  BY <1>5
<1> HIDE DEF m, z
<1>7. /\ EndOf(m, 0) = z /\ EndOf(m, 1) = z + 4 + t.len
      /\ EndOf(m, 2) = z + TLVSize(t) + 4 + u.len
  BY <1>1, <1>2, <1>5, <1>6 DEF EndOf, z
<1>8. /\ EndOf(m, 1) = m.at[2] /\ EndOf(m, 1) <= m.size /\ EndOf(m, 2) = m.size
      /\ m.size <= m.size /\ m.at[1] # m.at[2] /\ m.at[1] \in Nat /\ m.at[2] \in Nat
  BY <1>1, <1>2, <1>5, <1>6, <1>7
<1>9. \A i \in 1 .. Len(m.tlvs) : (i = 1 /\ i - 1 = 0) \/ (i = 2 /\ i - 1 = 1)
  BY <1>6
<1>10. ASSUME NEW i \in 1 .. Len(m.tlvs)
       PROVE  /\ Encoded(m.tlvs[i])
              /\ m.at[i] = EndOf(m, i - 1) /\ m.at[i] \in Nat /\ EndOf(m, i) <= m.size
              /\ \A j \in 1 .. Len(m.tlvs) : m.at[i] = m.at[j] => i = j
  BY <1>6, <1>7, <1>8, <1>9
<1>11. WellFormed(m)
  BY <1>4, <1>5, <1>6, <1>8, <1>10 DEF WellFormed, WithTLVs
<1> QED BY <1>11 DEF m

\* Every message of the server and of its clients is well formed, with names
\* that are long enough.
LEMMA MessagesFormed ==
    ASSUME LongNames, NEW m \in ServerMessages \cup ClientMessages
    PROVE  WellFormed(m)
<1> USE DEF headerSize, tlvHeadSize
<1>1. /\ FixedSize("Sync") = headerSize + 10 /\ FixedSize("FollowUp") = headerSize + 10
      /\ FixedSize("Announce") = headerSize + 30 /\ FixedSize("DelayResp") = headerSize + 20
      /\ FixedSize("Signaling") = headerSize + 10
  BY DEF FixedSize, AnnounceSize, SyncDelayReqSize, FollowUpSize, DelayRespSize, SignalingSize
<1>2. CASE m \in {InitSync, InitFollowup, InitAnnounce, InitDelayResp}
  <2>1. {"Sync", "FollowUp", "Announce", "DelayResp"} \subseteq MessageKind \ {"Other", "Signaling"}
    BY DEF MessageKind
  <2> QED BY <1>1, <1>2, <2>1, NoTLVFormed
          DEF InitSync, InitFollowup, InitAnnounce, InitDelayResp
<1>3. ASSUME NEW type \in StrictTLV, NEW len \in 0..MaxUint16, len = Want(type),
             TLVSize(TLV(type, len, 0)) = 4 + len
      PROVE  Encoded(TLV(type, len, 0))
  <2> DEFINE t == TLV(type, len, 0)
  <2>1. t.type = type /\ t.len = len
    BY DEF TLV
  <2>2. t \in WireTLV
    <3>1. type \in TLVKind /\ 0 \in 0..MaxUint8
      BY Ranges DEF TLVKind, KnownTLV
    <3> QED BY <3>1 DEF TLV, WireTLV
  <2>3. type # "AlternateTimeOffset"
    BY DEF StrictTLV
  <2>4. len >= len
    BY <1>3, Ranges
  <2> HIDE DEF t
  <2>5. TLVSize(t) = 4 + len
    BY <1>3 DEF t
  <2>6. Encoded(t)
    BY <1>3, <2>1, <2>2, <2>3, <2>4, <2>5 DEF Encoded
  <2> QED BY <2>6 DEF t
<1>4. /\ 2 \in 0..MaxUint16 /\ 6 \in 0..MaxUint16 /\ 8 \in 0..MaxUint16
  BY Ranges
<1>5. /\ Want("Grant") = 8 /\ Want("Cancel") = 2 /\ Want("Request") = 6
      /\ Want("AckCancel") = 2 /\ Want("AlternateResponsePort") = 2
  BY DEF Want, GrantLength, CancelLength, RequestLength, AckCancelLength,
         AlternateResponsePortLength
<1>6. /\ TLVSize(TLV("Grant", 8, 0)) = 4 + 8 /\ TLVSize(TLV("Cancel", 2, 0)) = 4 + 2
      /\ TLVSize(TLV("Request", 6, 0)) = 4 + 6 /\ TLVSize(TLV("AckCancel", 2, 0)) = 4 + 2
      /\ TLVSize(TLV("AlternateResponsePort", 2, 0)) = 4 + 2
  BY DEF TLVSize, TLV, GrantSize, CancelSize, RequestSize, AckCancelSize,
         AlternateResponsePortSize
<1>7. /\ Encoded(TLV("Grant", 8, 0)) /\ Encoded(TLV("Cancel", 2, 0))
      /\ Encoded(TLV("Request", 6, 0)) /\ Encoded(TLV("AckCancel", 2, 0))
      /\ Encoded(TLV("AlternateResponsePort", 2, 0))
  <2>1. {"Grant", "Cancel", "Request", "AckCancel", "AlternateResponsePort"} \subseteq StrictTLV
    BY DEF StrictTLV
  <2> QED BY <1>3, <1>4, <1>5, <1>6, <2>1
<1>8. {"Signaling", "DelayReq", "Announce"} \subseteq WithTLVs
  BY DEF WithTLVs
<1>9. CASE m \in {UpdateSignalingGrant, UpdateSignalingCancel}
  <2>1. /\ UpdateSignalingGrant = OneTLV("Signaling", TLV("Grant", 8, 0))
        /\ UpdateSignalingCancel = OneTLV("Signaling", TLV("Cancel", 2, 0))
    BY <1>1, <1>6 DEF UpdateSignalingGrant, UpdateSignalingCancel, OneTLV, GrantSize, CancelSize
  <2> QED BY <1>7, <1>8, <1>9, <2>1, OneTLVFormed
<1>10. CASE m \in Requests
  BY <1>7, <1>8, <1>10, TwoTLVsFormed DEF Requests
<1>11. CASE m \in DelayRequests
  <2>1. WellFormed(OneTLV("DelayReq", TLV("AlternateResponsePort", 2, 0)))
    BY <1>7, <1>8, OneTLVFormed
  <2>2. "DelayReq" \in MessageKind \ {"Other", "Signaling"}
    BY DEF MessageKind
  <2>3. WellFormed(Message("DelayReq", FixedSize("DelayReq")))
    BY <2>2, NoTLVFormed
  <2> QED BY <1>11, <2>1, <2>3 DEF DelayRequests
<1>12. CASE m \in AnnounceNames
  <2>1. PICK n \in NameLengths :
            m = OneTLV("Announce",
                  TLV("AlternateTimeOffset", AlternateTimeOffsetSize(n) - tlvHeadSize, n))
    BY <1>12 DEF AnnounceNames
  <2> DEFINE len == AlternateTimeOffsetSize(n) - tlvHeadSize
             t == TLV("AlternateTimeOffset", len, n)
  <2>2. n \in 0..MaxUint8 /\ n \in Nat /\ n >= 3
    BY CodecAssumption, Ranges DEF LongNames
  <2>3. AlternateTimeOffsetSize(n) \in 19..276
    BY <2>2, NameSizes
  <2>4. TextSize(n) \in Nat /\ TextSize(n) >= 5 /\ TextSize(n) >= 1 + n
    BY <2>2 DEF TextSize
  <2>5. AlternateTimeOffsetSize(n) = 19 + TextSize(n)
    BY <2>2, <2>4 DEF AlternateTimeOffsetSize
  <2>6. len \in Nat /\ len >= 20 /\ len >= 16 + n /\ AlternateTimeOffsetSize(n) = 4 + len
    BY <2>2, <2>4, <2>5
  <2>7. len \in 0..MaxUint16
    BY <2>3, Ranges
  <2> HIDE DEF len
  <2>8. t.type = "AlternateTimeOffset" /\ t.len = len /\ t.text = n
    BY DEF TLV
  <2>9. t \in WireTLV
    BY <2>2, <2>7 DEF TLV, WireTLV, TLVKind, KnownTLV
  <2>10. TLVSize(t) = 4 + len
    BY <2>6, <2>8 DEF TLVSize
  <2>11. Want("AlternateTimeOffset") = 20 /\ "AlternateTimeOffset" \notin StrictTLV
    BY DEF Want, AlternateTimeOffsetLength, StrictTLV
  <2> HIDE DEF t
  <2>12. Encoded(t)
    BY <2>6, <2>8, <2>9, <2>10, <2>11 DEF Encoded
  <2> QED BY <1>8, <2>1, <2>12, OneTLVFormed DEF t, len
<1> QED BY <1>2, <1>9, <1>10, <1>11, <1>12 DEF ServerMessages, ClientMessages

-----------------------------------------------------------------------------
(***************************************************************************)
(* While a message of this package is decoded, what was decoded is where   *)
(* it begins, and pos is at the end of that: at the next TLV or at the end *)
(* of the message.  The bytes received contain it and the two of BytesTo.  *)
(***************************************************************************)
Prefix ==
    /\ Len(tlvs) <= Len(made.tlvs)
    /\ \A i \in 1 .. Len(tlvs) : tlvs[i] = made.tlvs[i]
    /\ At(0) = EndOf(made, Len(tlvs))

DecodeInv ==
    made # Unknown =>
        /\ WellFormed(made)
        /\ packet.kind = made.kind /\ packet.MessageLength = made.MessageLength
        /\ packet.size >= made.size + 2
        /\ pc = "unmarshal" => pos = 0
        /\ pc = "tlvs" => made.kind \in WithTLVs /\ Prefix
        /\ pc = "receive" => result = "ok" /\ tlvs = made.tlvs

\* The least bytes of a well formed message, and the types of its parts.
LEMMA LeastSize ==
    ASSUME NEW m, WellFormed(m)
    PROVE  /\ m.size \in Nat /\ m.size >= FixedSize(m.kind)
           /\ m.kind = "Signaling" => m.size >= FixedSize(m.kind) + 4
           /\ m.tlvs \in Seq(WireTLV) /\ Len(m.tlvs) \in Nat
           /\ \A i \in 1 .. Len(m.tlvs) : m.tlvs[i].len \in Nat /\ m.tlvs[i].text \in 0..MaxUint8
<1>1. m.size \in Nat /\ m.tlvs \in Seq(WireTLV)
  BY DEF WellFormed, WireMessage
<1>2. Len(m.tlvs) \in Nat
  BY <1>1, LenProperties
<1>3. FixedSize(m.kind) \in Nat
  BY FixedSizes
<1>4. ASSUME NEW i \in 1 .. Len(m.tlvs)
      PROVE  m.tlvs[i].len \in Nat /\ m.tlvs[i].text \in 0..MaxUint8
  <2>1. m.tlvs[i].len \in 0..MaxUint16 /\ m.tlvs[i].text \in 0..MaxUint8
    BY DEF WellFormed, Encoded, WireTLV
  <2> QED BY <2>1, Ranges
<1>5. CASE Len(m.tlvs) = 0
  <2>1. m.kind # "Signaling" /\ m.size = FixedSize(m.kind)
    BY <1>5 DEF WellFormed, EndOf
  <2>2. m.size >= FixedSize(m.kind)
    BY <1>1, <1>3, <2>1
  <2> QED BY <1>1, <1>2, <1>4, <2>1, <2>2
<1>6. CASE Len(m.tlvs) > 0
  <2>1. 1 \in 1 .. Len(m.tlvs)
    BY <1>2, <1>6
  <2>2. m.at[1] = EndOf(m, 1 - 1) /\ EndOf(m, 1) <= m.size /\ m.at[1] \in Nat
    BY <2>1 DEF WellFormed
  <2>3. m.at[1] = FixedSize(m.kind) /\ EndOf(m, 1) = m.at[1] + 4 + m.tlvs[1].len
    BY <2>2 DEF EndOf
  <2>4. m.tlvs[1].len \in Nat
    BY <1>4, <2>1
  <2>5. m.size >= FixedSize(m.kind) + 4 /\ m.size >= FixedSize(m.kind)
    BY <1>1, <1>3, <2>2, <2>3, <2>4
  <2> QED BY <1>1, <1>2, <1>4, <2>5
<1> QED BY <1>2, <1>5, <1>6

\* A message of this package arrives whole, and the handler or client that it is
\* for decodes it.
LEMMA ReceiveDecodes ==
    ASSUME LongNames, IInv, ReceiveAny \/ ReceiveRequest \/ ReceiveResponse
    PROVE  DecodeInv'
<1>1. CASE ReceiveAny
  BY <1>1 DEF ReceiveAny, Arrive, DecodeInv
<1>2. ASSUME NEW m \in ServerMessages \cup ClientMessages, NEW e \in ExtraBytes,
             Arrive(m.kind, BytesTo(m) + e, m.MessageLength, m),
             Handle(m.kind) \/ DecodePacket
      PROVE  DecodeInv'
  <2>1. WellFormed(m)
    BY MessagesFormed
  <2>2. m.size \in Nat /\ m.size >= headerSize /\ m.kind # "Other" /\ e \in Nat
    <3>1. FixedSize(m.kind) \in Nat /\ FixedSize(m.kind) >= headerSize /\ headerSize \in Nat
      BY FixedSizes DEF headerSize
    <3>2. m.kind # "Other" /\ e \in Nat
      BY <2>1, CodecAssumption DEF WellFormed
    <3>3. m.size \in Nat /\ m.size >= FixedSize(m.kind)
      BY <2>1, LeastSize
    <3> QED BY <3>1, <3>2, <3>3
  <2>3. /\ packet'.kind = m.kind /\ packet'.size = m.size + 2 + e
        /\ packet'.MessageLength = m.MessageLength /\ made' = m /\ pos' = 0
    BY <1>2 DEF Arrive, BytesTo
  <2>4. packet'.size >= headerSize /\ packet'.size >= 1 /\ packet'.size >= m.size + 2
    BY <2>2, <2>3 DEF headerSize
  <2>5. headerSize \in Nat /\ packet'.size \in Nat
    BY <2>2, <2>3 DEF headerSize
  <2>6. pc' = "unmarshal"
    <3>1. ~ (packet'.size < headerSize) /\ ~ (packet'.size < 1)
      BY <2>4, <2>5
    <3> QED BY <1>2, <2>2, <2>3, <3>1 DEF Handle, DecodePacket, FromBytes
  <2> QED BY <2>1, <2>3, <2>4, <2>6 DEF DecodeInv
<1>3. CASE ReceiveRequest
  BY <1>2, <1>3 DEF ReceiveRequest
<1>4. CASE ReceiveResponse
  BY <1>2, <1>4 DEF ReceiveResponse
<1> QED BY <1>1, <1>3, <1>4

\* The length checks let it pass.
LEMMA UnmarshalDecodes ==
    ASSUME IInv, DecodeInv, UnmarshalBinary
    PROVE  DecodeInv'
<1> SUFFICES ASSUME made # Unknown PROVE DecodeInv'
  BY DEF DecodeInv, UnmarshalBinary, UnmarshalAnnounce, UnmarshalSyncDelayReq,
         UnmarshalFollowUp, UnmarshalDelayResp, UnmarshalSignaling, Unmarshal
<1>1. /\ WellFormed(made) /\ packet.kind = made.kind
      /\ packet.MessageLength = made.MessageLength /\ packet.size >= made.size + 2
  BY DEF DecodeInv
<1>2. /\ made.size \in Nat /\ made.MessageLength = made.size /\ packet.size \in Nat
      /\ FixedSize(made.kind) \in Nat
  BY <1>1, FixedSizes DEF WellFormed, WireMessage, IInv, TypeOK
<1>3. CheckPacketLength
  BY <1>1, <1>2 DEF CheckPacketLength
<1>4. /\ made.size >= FixedSize(made.kind)
      /\ made.kind = "Signaling" => made.size >= FixedSize(made.kind) + 4
  BY <1>1, LeastSize
<1>5. ASSUME NEW kinds, NEW min \in Nat, Unmarshal(kinds, min), made.size >= min
      PROVE  DecodeInv'
  <2>1. packet.size >= min /\ ~ (packet.size < min)
    BY <1>1, <1>2, <1>5
  <2>2. /\ pc = "unmarshal" /\ UNCHANGED <<received, packet, made, pos, tlvs>>
        /\ IF packet.kind \in WithTLVs THEN pc' = "tlvs" ELSE pc' = "receive" /\ result' = "ok"
    BY <1>3, <1>5, <2>1 DEF Unmarshal, Return
  <2>3. tlvs = <<>> /\ pos = 0
    BY <2>2 DEF IInv, FreshMessage, DecodeInv
  <2>4. CASE packet.kind \in WithTLVs
    <3>1. Prefix'
      <4>1. Len(tlvs) = 0
        BY <2>3
      <4>2. Len(made.tlvs) \in Nat
        BY <1>1, LeastSize
      <4>3. FixedSize(packet.kind) + pos + 0 = FixedSize(made.kind)
        BY <1>1, <1>2, <2>3
      <4>4. Len(tlvs) <= Len(made.tlvs) /\ \A i : i \notin 1 .. Len(tlvs)
        BY <4>1, <4>2
      <4> QED BY <2>2, <4>1, <4>3, <4>4 DEF Prefix, At, EndOf
    <3> QED BY <1>1, <2>2, <2>4, <3>1 DEF DecodeInv
  <2>5. CASE packet.kind \notin WithTLVs
    <3>1. made.tlvs = <<>>
      BY <1>1, <2>5 DEF WellFormed
    <3> QED BY <1>1, <2>2, <2>3, <2>5, <3>1 DEF DecodeInv
  <2> QED BY <2>4, <2>5
<1> USE DEF headerSize, tlvHeadSize
<1>6. CASE UnmarshalAnnounce
  <2>1. packet.kind = "Announce"
    BY <1>6 DEF UnmarshalAnnounce, Unmarshal
  <2>2. made.size >= headerSize + 30
    BY <1>1, <1>4, <2>1 DEF FixedSize, AnnounceSize
  <2> QED BY <1>5, <1>6, <2>2 DEF UnmarshalAnnounce
<1>7. CASE UnmarshalSyncDelayReq
  <2>1. packet.kind \in {"Sync", "DelayReq"}
    BY <1>7 DEF UnmarshalSyncDelayReq, Unmarshal
  <2>2. made.size >= headerSize + 10
    BY <1>1, <1>4, <2>1 DEF FixedSize, SyncDelayReqSize
  <2> QED BY <1>5, <1>7, <2>2 DEF UnmarshalSyncDelayReq
<1>8. CASE UnmarshalFollowUp
  <2>1. packet.kind = "FollowUp"
    BY <1>8 DEF UnmarshalFollowUp, Unmarshal
  <2>2. made.size >= headerSize + 10
    BY <1>1, <1>4, <2>1 DEF FixedSize, FollowUpSize
  <2> QED BY <1>5, <1>8, <2>2 DEF UnmarshalFollowUp
<1>9. CASE UnmarshalDelayResp
  <2>1. packet.kind = "DelayResp"
    BY <1>9 DEF UnmarshalDelayResp, Unmarshal
  <2>2. made.size >= headerSize + 20
    BY <1>1, <1>4, <2>1 DEF FixedSize, DelayRespSize
  <2> QED BY <1>5, <1>9, <2>2 DEF UnmarshalDelayResp
<1>10. CASE UnmarshalSignaling
  <2>1. packet.kind = "Signaling"
    BY <1>10 DEF UnmarshalSignaling, Unmarshal
  <2>2. made.size >= headerSize + 10 + tlvHeadSize
    BY <1>1, <1>4, <2>1 DEF FixedSize, SignalingSize
  <2> QED BY <1>5, <1>10, <2>2 DEF UnmarshalSignaling
<1> QED BY <1>6, <1>7, <1>8, <1>9, <1>10 DEF UnmarshalBinary

\* The next TLV of the message is the one at pos, and it passes every check.
LEMMA NextTLV ==
    ASSUME IInv, DecodeInv, made # Unknown, pc = "tlvs", Len(tlvs) < Len(made.tlvs),
           NEW j, j = Len(tlvs) + 1
    PROVE  /\ j \in 1 .. Len(made.tlvs) /\ TLVsHere = {made.tlvs[j]}
           /\ made.tlvs[j].type \in KnownTLV /\ CheckTLVLength(made.tlvs[j])
           /\ TextFits(made.tlvs[j]) \/ made.tlvs[j].type # "AlternateTimeOffset"
           /\ At(0) = made.at[j] /\ made.at[j] + 4 + made.tlvs[j].len <= made.size
           /\ made.at[j] + 4 + made.tlvs[j].len = EndOf(made, j)
           /\ made.at[j] \in Nat /\ made.tlvs[j].len \in Nat
<1> DEFINE t == made.tlvs[j]
<1>1. WellFormed(made) /\ Prefix /\ packet.size >= made.size + 2
  BY DEF DecodeInv
<1>2. Len(made.tlvs) \in Nat /\ made.size \in Nat
  BY <1>1, LeastSize
<1>3. tlvs \in Seq(DecodedTLV) /\ packet.size \in Nat /\ pos \in Nat
  BY DEF IInv, TypeOK
<1>4. Len(tlvs) \in Nat
  BY <1>3, LenProperties
<1>5. j \in 1 .. Len(made.tlvs) /\ j # 0 /\ j - 1 = Len(tlvs)
  BY <1>2, <1>4
<1>6. /\ Encoded(t) /\ made.at[j] = EndOf(made, j - 1) /\ made.at[j] \in Nat
      /\ EndOf(made, j) <= made.size /\ EndOf(made, j) = made.at[j] + 4 + t.len
      /\ \A i \in 1 .. Len(made.tlvs) : made.at[j] = made.at[i] => j = i
  BY <1>1, <1>5 DEF WellFormed, EndOf
<1>7. At(0) = made.at[j]
  BY <1>1, <1>5, <1>6 DEF Prefix
<1>8. TLVsHere = {t}
  <2>1. {i \in 1 .. Len(made.tlvs) : made.at[i] = At(0)} = {j}
    BY <1>5, <1>6, <1>7
  <2> QED BY <2>1 DEF TLVsHere
<1>9. t.len \in Nat /\ t.text \in Nat /\ t.text <= 255
  <2>1. t.len \in Nat /\ t.text \in 0..MaxUint8
    BY <1>1, <1>5, LeastSize
  <2>2. \A n \in 0..MaxUint8 : n \in Nat /\ n <= 255
    BY DEF MaxUint8
  <2> QED BY <2>1, <2>2
<1> HIDE DEF t
<1>10. Rest \in Int /\ Rest >= 4 + t.len + 2
  <2>1. FixedSize(packet.kind) \in Nat
    BY FixedSizes
  <2>2. FixedSize(packet.kind) + pos + 0 = made.at[j]
    BY <1>7 DEF At
  <2>3. made.at[j] + 4 + t.len <= made.size
    BY <1>6
  <2>4. \A size, f, p, a, n, m \in Nat :
            f + p + 0 = a /\ a + 4 + n <= m /\ size >= m + 2
              => size - f - p \in Int /\ size - f - p >= 4 + n + 2
    OBVIOUS
  <2> QED BY <1>1, <1>2, <1>3, <1>6, <1>9, <2>1, <2>2, <2>3, <2>4 DEF Rest
<1>11. t.type \in KnownTLV
  BY <1>6 DEF Encoded, KnownTLV
<1>12. CheckTLVLength(t)
  <2>1. tlvHeadSize + t.len <= Rest
    BY <1>9, <1>10 DEF tlvHeadSize
  <2> QED BY <1>6, <2>1 DEF CheckTLVLength, Encoded
<1>13. TextFits(t) \/ t.type # "AlternateTimeOffset"
  <2> SUFFICES ASSUME t.type = "AlternateTimeOffset" PROVE TextFits(t)
    OBVIOUS
  <2>1. t.len >= 16 + t.text
    BY <1>6 DEF Encoded
  <2>2. Rest - 19 >= t.text + 3
    BY <1>9, <1>10, <2>1
  <2>3. \A n \in Nat : (n + 1) % 256 <= n + 1
    OBVIOUS
  <2>4. (t.text + 1) % 256 \in Nat /\ (t.text + 1) % 256 <= t.text + 1
    BY <1>9, <2>3
  <2>5. Rest - 19 >= (t.text + 1) % 256 /\ Rest - 19 - 1 >= t.text
    <3>1. \A r \in Int : \A n, x \in Nat :
              r - 19 >= n + 3 /\ x <= n + 1 => r - 19 >= x /\ r - 19 - 1 >= n
      OBVIOUS
    <3> QED BY <1>9, <1>10, <2>2, <2>4, <3>1
  <2>6. tlvHeadSize + 15 = 19
    BY DEF tlvHeadSize
  <2> QED BY <2>5, <2>6 DEF TextFits
<1> QED BY <1>5, <1>6, <1>7, <1>8, <1>9, <1>11, <1>12, <1>13 DEF t

\* The loop goes on exactly as long as TLVs of the message are left.
LEMMA MoreWhileLeft ==
    ASSUME IInv, DecodeInv, made # Unknown, pc = "tlvs"
    PROVE  MoreTLVs <=> Len(tlvs) < Len(made.tlvs)
<1>1. /\ WellFormed(made) /\ Prefix /\ packet.kind = made.kind
      /\ packet.MessageLength = made.MessageLength
  BY DEF DecodeInv
<1>2. Len(made.tlvs) \in Nat /\ made.size \in Nat /\ made.MessageLength = made.size
  BY <1>1, LeastSize DEF WellFormed
<1>3. tlvs \in Seq(DecodedTLV) /\ pos \in Nat /\ FixedSize(packet.kind) \in Nat
  BY FixedSizes DEF IInv, TypeOK
<1>4. Len(tlvs) \in Nat /\ Len(tlvs) <= Len(made.tlvs)
  BY <1>1, <1>3, LenProperties DEF Prefix
<1>5. MoreTLVs <=> At(0) + 4 <= made.size
  BY <1>1, <1>2, <1>3 DEF MoreTLVs, maxLength, At, tlvHeadSize
<1>6. CASE Len(tlvs) < Len(made.tlvs)
  <2>1. /\ At(0) = made.at[Len(tlvs) + 1] /\ At(0) \in Nat
        /\ made.tlvs[Len(tlvs) + 1].len \in Nat
        /\ At(0) + 4 + made.tlvs[Len(tlvs) + 1].len <= made.size
    BY <1>6, NextTLV
  <2>2. At(0) + 4 <= made.size
    BY <1>2, <2>1
  <2> QED BY <1>5, <1>6, <2>2
<1>7. CASE Len(tlvs) = Len(made.tlvs)
  <2>1. At(0) = made.size
    BY <1>1, <1>7 DEF Prefix, WellFormed
  <2>2. ~ (At(0) + 4 <= made.size) /\ ~ (Len(tlvs) < Len(made.tlvs))
    BY <1>2, <1>4, <1>7, <2>1
  <2> QED BY <1>5, <2>2
<1> QED BY <1>2, <1>4, <1>6, <1>7

\* One turn of the loop decodes the next TLV.
LEMMA ReadDecodes ==
    ASSUME IInv, DecodeInv, ReadTLV
    PROVE  DecodeInv'
<1>1. UNCHANGED <<received, packet, made>> /\ pc = "tlvs" /\ MoreTLVs
  BY DEF ReadTLV
<1> SUFFICES ASSUME made # Unknown PROVE DecodeInv'
  BY <1>1 DEF DecodeInv
<1> DEFINE j == Len(tlvs) + 1
           t == made.tlvs[j]
<1>2. Len(tlvs) < Len(made.tlvs)
  BY <1>1, MoreWhileLeft
<1>3. /\ j \in 1 .. Len(made.tlvs) /\ TLVsHere = {t}
      /\ t.type \in KnownTLV /\ CheckTLVLength(t)
      /\ TextFits(t) \/ t.type # "AlternateTimeOffset"
      /\ At(0) = made.at[j] /\ made.at[j] + 4 + t.len <= made.size
      /\ made.at[j] + 4 + t.len = EndOf(made, j) /\ made.at[j] \in Nat /\ t.len \in Nat
  BY <1>1, <1>2, NextTLV
<1>4. ReadUnknownTLV(t) \/ RejectLength(t) \/ RejectText(t) \/ AppendTLV(t)
  BY <1>3 DEF ReadTLV
<1>5. t.type # "Unknown"
  BY <1>3 DEF KnownTLV, StrictTLV
<1>6. AppendTLV(t)
  BY <1>3, <1>4, <1>5 DEF ReadUnknownTLV, RejectLength, RejectText
<1>7. /\ tlvs' = Append(tlvs, t) /\ pos' = pos + 4 + t.len /\ UNCHANGED <<pc, result>>
  BY <1>6 DEF AppendTLV, NextPos, tlvHeadSize
<1>8. tlvs \in Seq(WireTLV) /\ t \in WireTLV /\ pos \in Nat /\ FixedSize(packet.kind) \in Nat
  <2>1. tlvs \in Seq(DecodedTLV) /\ pos \in Nat /\ FixedSize(packet.kind) \in Nat
    BY FixedSizes DEF IInv, TypeOK
  <2>2. t \in WireTLV
    BY <1>3 DEF DecodeInv, WellFormed, Encoded
  <2>3. DecodedTLV \subseteq WireTLV
    BY DEF DecodedTLV, WireTLV, TLVKind
  <2> QED BY <2>1, <2>2, <2>3
<1>9. /\ Len(tlvs) \in Nat /\ Len(tlvs') = j /\ tlvs'[j] = t
      /\ \A i \in 1 .. Len(tlvs) : tlvs'[i] = tlvs[i]
  BY <1>7, <1>8, AppendProperties, LenProperties
<1>10. Prefix'
  <2>1. Len(tlvs') <= Len(made.tlvs)
    BY <1>3, <1>9
  <2>2. \A i \in 1 .. Len(tlvs') : tlvs'[i] = made.tlvs[i]
    <3>1. \A i \in 1 .. Len(tlvs) : tlvs[i] = made.tlvs[i]
      BY <1>1 DEF DecodeInv, Prefix
    <3>2. \A i \in 1 .. Len(tlvs') : i \in 1 .. Len(tlvs) \/ i = j
      BY <1>9
    <3> QED BY <1>9, <3>1, <3>2
  <2>3. At(0)' = At(0) + 4 + t.len
    <3>1. At(0)' = FixedSize(packet.kind) + pos' + 0
      BY <1>1 DEF At
    <3>2. \A f, p, n \in Nat : f + (p + 4 + n) + 0 = (f + p + 0) + 4 + n
      OBVIOUS
    <3> QED BY <1>3, <1>7, <1>8, <3>1, <3>2 DEF At
  <2>4. At(0)' = EndOf(made, j)
    BY <1>3, <2>3
  <2>5. EndOf(made', Len(tlvs')) = EndOf(made, j)
    BY <1>1, <1>9
  <2> QED BY <1>1, <2>1, <2>2, <2>4, <2>5 DEF Prefix
<1> QED BY <1>1, <1>7, <1>10 DEF DecodeInv

\* At the end of the loop everything is decoded.
LEMMA EndDecodes ==
    ASSUME IInv, DecodeInv, EndTLVs
    PROVE  DecodeInv'
<1>1. UNCHANGED <<received, packet, made, pos, tlvs, top>> /\ pc = "tlvs" /\ ~ MoreTLVs
  BY DEF EndTLVs
<1> SUFFICES ASSUME made # Unknown PROVE DecodeInv'
  BY <1>1 DEF DecodeInv
<1>2. WellFormed(made) /\ Prefix /\ packet.kind = made.kind
  BY <1>1 DEF DecodeInv
<1>3. Len(made.tlvs) \in Nat /\ made.tlvs \in Seq(WireTLV)
  BY <1>2, LeastSize
<1>4. tlvs \in Seq(WireTLV)
  <2>1. tlvs \in Seq(DecodedTLV)
    BY DEF IInv, TypeOK
  <2>2. DecodedTLV \subseteq WireTLV
    BY DEF DecodedTLV, WireTLV, TLVKind
  <2> QED BY <2>1, <2>2
<1>5. Len(tlvs) = Len(made.tlvs)
  <2>1. Len(tlvs) \in Nat /\ ~ (Len(tlvs) < Len(made.tlvs))
    BY <1>1, <1>4, MoreWhileLeft, LenProperties
  <2> QED BY <1>2, <1>3, <2>1 DEF Prefix
<1>6. tlvs = made.tlvs
  BY <1>2, <1>3, <1>4, <1>5, SeqEqual DEF Prefix
<1>7. packet.kind = "Signaling" => tlvs # <<>>
  BY <1>2, <1>6 DEF WellFormed
<1>8. pc' = "receive" /\ result' = "ok"
  BY <1>7 DEF EndTLVs, Return
<1> QED BY <1>1, <1>6, <1>8 DEF DecodeInv

(***************************************************************************)
(* Every message the server sends, and every request a client sends it, is *)
(* decoded to the TLVs it was made with, whatever packets came before it   *)
(* and however many bytes follow it; for announced names of three bytes or *)
(* more (LongNames), since shorter ones are encoded in fewer bytes than    *)
(* AlternateTimeOffsetIndicatorTLV.UnmarshalBinary wants.                  *)
(***************************************************************************)
THEOREM DecodesWhatIsMade ==
    ASSUME LongNames
    PROVE  Spec => []RoundTrip
<1>1. Init => DecodeInv
  BY DEF Init, DecodeInv
<1>2. IInv /\ DecodeInv /\ [Next]_vars => DecodeInv'
  <2> SUFFICES ASSUME IInv, DecodeInv, [Next]_vars PROVE DecodeInv'
    OBVIOUS
  <2>1. CASE UNCHANGED vars
    BY <2>1 DEF vars, DecodeInv, Prefix, At
  <2> QED BY <2>1, ReceiveDecodes, UnmarshalDecodes, ReadDecodes, EndDecodes DEF Next
<1>3. DecodeInv => RoundTrip
  BY DEF DecodeInv, RoundTrip
<1> QED BY <1>1, <1>2, <1>3, CodecInvariance, PTL DEF Spec

=============================================================================
