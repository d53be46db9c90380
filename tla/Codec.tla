------------------------------- MODULE Codec --------------------------------
(***************************************************************************)
(* Decoding and encoding of PTP messages (protocol/protocol.go, unicast.go,*)
(* tlvs.go, PTPText of types.go), and the way the server's handlers and    *)
(* workers use it.                                                         *)
(*                                                                         *)
(* A packet is its message type, the bytes received, the MessageLength of  *)
(* its header and the TLVs in it; field values that no length or branch    *)
(* depends on are left out.  The TLVs of a packet of unknown origin are    *)
(* chosen when the decoder gets to them, so every content is covered; the  *)
(* TLVs of a message made by this package are those it was made with.      *)
(***************************************************************************)
EXTENDS Integers, Sequences

CONSTANTS
    BufferSizes,    \* bytes a packet may arrive with
    MessageLengths, \* header.MessageLength of a packet of unknown origin
    LengthFields,   \* TLVHead.LengthField of a TLV of unknown origin
    TextLengths,    \* LengthField of a PTPText of unknown origin
    NameLengths,    \* DisplayName of the Announce messages this package makes
    ExtraBytes,     \* trailing bytes a message may pick up on its way
    MaxPackets      \* bound: packets received

MaxUint8 == 255
MaxUint16 == 65535

ASSUME CodecAssumption ==
    /\ BufferSizes \subseteq Nat
    /\ MessageLengths \subseteq 0..MaxUint16
    /\ LengthFields \subseteq 0..MaxUint16
    /\ TextLengths \subseteq 0..MaxUint8
    /\ NameLengths \subseteq 0..MaxUint8
    /\ ExtraBytes \subseteq Nat
    /\ MaxPackets \in Nat

headerSize == 34
tlvHeadSize == 4

Larger(a, b) == IF a < b THEN b ELSE a
Smaller(a, b) == IF a < b THEN a ELSE b

MessageKind ==
    {"Sync", "DelayReq", "FollowUp", "DelayResp", "Announce", "Signaling", "Other"}

\* What each MarshalBinaryTo writes before the TLVs.
AnnounceSize == headerSize + 30
SyncDelayReqSize == headerSize + 10
FollowUpSize == headerSize + 10
DelayRespSize == headerSize + 20
SignalingSize == headerSize + 10

FixedSize(kind) ==
    CASE kind = "Announce"            -> AnnounceSize
      [] kind = "FollowUp"            -> FollowUpSize
      [] kind = "DelayResp"           -> DelayRespSize
      [] kind = "Signaling"           -> SignalingSize
      [] OTHER                        -> SyncDelayReqSize

StrictTLV == {"Request", "Grant", "Cancel", "AckCancel", "AlternateResponsePort"}
KnownTLV == StrictTLV \cup {"PathTrace", "AlternateTimeOffset"}
TLVKind == KnownTLV \cup {"Unknown"}

\* The LengthField each TLV's UnmarshalBinary wants.
RequestLength == 6
GrantLength == 8
CancelLength == 2
AckCancelLength == 2
PathTraceLength == 8
AlternateTimeOffsetLength == 20
AlternateResponsePortLength == 2

Want(type) ==
    CASE type = "Request"               -> RequestLength
      [] type = "Grant"                 -> GrantLength
      [] type = "Cancel"                -> CancelLength
      [] type = "AckCancel"             -> AckCancelLength
      [] type = "PathTrace"             -> PathTraceLength
      [] type = "AlternateTimeOffset"   -> AlternateTimeOffsetLength
      [] OTHER                          -> AlternateResponsePortLength

\* A TLV on the wire; text is the LengthField of its PTPText, if it has one.
TLV(type, len, text) == [type |-> type, len |-> len, text |-> text]

\* Zero bytes, as padding holds, read as a TLV of a type there is not.
ZeroBytes == TLV("Unknown", 0, 0)

FreeTLVs ==
    [type : TLVKind \ {"AlternateTimeOffset"}, len : LengthFields, text : {0}]
      \cup [type : {"AlternateTimeOffset"}, len : LengthFields, text : TextLengths]

-----------------------------------------------------------------------------
(***************************************************************************)
(* The messages this package makes                                         *)
(***************************************************************************)
\* What each TLV's MarshalBinaryTo writes, whatever its LengthField.
RequestSize == tlvHeadSize + 6
GrantSize == tlvHeadSize + 8
CancelSize == tlvHeadSize + 2
AckCancelSize == tlvHeadSize + 2
AlternateResponsePortSize == tlvHeadSize + 2

\* PTPText.MarshalBinary: length, text, padding to an even length.
TextSize(n) == 1 + n + (n % 2)

\* An empty name is not written at all.
AlternateTimeOffsetSize(n) == tlvHeadSize + 15 + IF n = 0 THEN 0 ELSE TextSize(n)

TLVSize(t) ==
    CASE t.type = "Request"             -> RequestSize
      [] t.type = "Grant"               -> GrantSize
      [] t.type = "Cancel"              -> CancelSize
      [] t.type = "AckCancel"           -> AckCancelSize
      [] t.type = "AlternateTimeOffset" -> AlternateTimeOffsetSize(t.text)
      [] OTHER                          -> AlternateResponsePortSize

\* A message as MarshalBinaryTo writes it: its TLVs, the offset of each, and
\* the bytes written.
Message(kind, MessageLength) ==
    [kind |-> kind, MessageLength |-> MessageLength, tlvs |-> <<>>, at |-> <<>>,
     size |-> FixedSize(kind)]

\* One turn of the loop of writeTLVs.
WriteTLV(m, t) ==
    [kind |-> m.kind, MessageLength |-> m.MessageLength, tlvs |-> Append(m.tlvs, t),
     at |-> Append(m.at, m.size), size |-> m.size + TLVSize(t)]

\* BytesTo: the message and two zero bytes.
BytesTo(m) == m.size + 2

\* The server's: Sync, Follow_Up, Announce and Delay_Resp have no TLVs.
InitSync == Message("Sync", headerSize + 10)
InitFollowup == Message("FollowUp", headerSize + 10)
InitAnnounce == Message("Announce", headerSize + 30)
InitDelayResp == Message("DelayResp", headerSize + 20)

UpdateSignalingGrant ==
    WriteTLV(Message("Signaling", headerSize + 10 + GrantSize),
             TLV("Grant", GrantSize - tlvHeadSize, 0))

UpdateSignalingCancel ==
    WriteTLV(Message("Signaling", headerSize + 10 + CancelSize),
             TLV("Cancel", CancelSize - tlvHeadSize, 0))

ServerMessages ==
    {InitSync, InitFollowup, InitAnnounce, InitDelayResp,
     UpdateSignalingGrant, UpdateSignalingCancel}

\* A client's messages, made with the same package; a client fills in the
\* MessageLength of what it writes.
OneTLV(kind, t) == WriteTLV(Message(kind, FixedSize(kind) + TLVSize(t)), t)

TwoTLVs(kind, t, u) ==
    WriteTLV(WriteTLV(Message(kind, FixedSize(kind) + TLVSize(t) + TLVSize(u)), t), u)

Requests ==
    {TwoTLVs("Signaling", TLV("Request", 6, 0), TLV("Request", 6, 0)),
     TwoTLVs("Signaling", TLV("AckCancel", 2, 0), TLV("Cancel", 2, 0))}

DelayRequests ==
    {Message("DelayReq", FixedSize("DelayReq")),
     OneTLV("DelayReq", TLV("AlternateResponsePort", 2, 0))}

AnnounceNames ==
    {OneTLV("Announce",
            TLV("AlternateTimeOffset", AlternateTimeOffsetSize(n) - tlvHeadSize, n)) :
        n \in NameLengths}

ClientMessages == Requests \cup DelayRequests \cup AnnounceNames

-----------------------------------------------------------------------------
VARIABLES
    received, \* packets received so far
    pc,       \* "receive", "unmarshal" or "tlvs"
    packet,   \* the packet: message type, bytes received, MessageLength
    made,     \* the message the packet was made from, or Unknown
    pos,      \* pos of readTLVs
    tlvs,     \* TLVs of the decoded message
    top,      \* one past the highest index of the buffer read so far
    result    \* how decoding the packet ended

vars == <<received, pc, packet, made, pos, tlvs, top, result>>

Unknown == Message("Other", 0)

Init ==
    /\ received = 0
    /\ pc = "receive"
    /\ packet = [kind |-> "Other", size |-> 0, MessageLength |-> 0]
    /\ made = Unknown
    /\ pos = 0 /\ tlvs = <<>> /\ top = 0
    /\ result = "none"

Reads(n) == top' = Larger(top, n)

\* Decoding is over: the handler goes back to reading the socket.
Return(r) == pc' = "receive" /\ result' = r

\* FromBytes calls the packet's UnmarshalBinary.
FromBytes == pc' = "unmarshal" /\ result' = "none"

-----------------------------------------------------------------------------
(***************************************************************************)
(* Entry points                                                            *)
(***************************************************************************)
\* A message type the handler has no case for.
IgnoreMessage == Return("ignored") /\ UNCHANGED tlvs

\* Mutant: the TLVs of the packet before are still there.
ResetTLVsForgotten == UNCHANGED tlvs

\* The handlers empty the TLVs of the one message they decode into.
ResetTLVs == tlvs' = <<>>

\* Mutant: MessageLength read as a signed number.
ArriveSigned(kind, size, MessageLength, m) ==
    /\ packet' = [kind |-> kind, size |-> size,
                  MessageLength |-> IF MessageLength < 32768
                                      THEN MessageLength ELSE MessageLength - 65536]
    /\ made' = m
    /\ pos' = 0

Arrive(kind, size, MessageLength, m) ==
    /\ packet' = [kind |-> kind, size |-> size, MessageLength |-> MessageLength]
    /\ made' = m
    /\ pos' = 0

\* ProbeMsgType, then the type switch of handleEventMessages (handles =
\* "DelayReq") or handleGeneralMessages (handles = "Signaling"); the drain check
\* between the two is part of Subscription.
Handle(handles) ==
    \/ /\ packet'.size < 1
       /\ Return("error") /\ top' = 0
       /\ UNCHANGED tlvs
    \/ /\ packet'.size >= 1 /\ packet'.kind # handles
       /\ IgnoreMessage /\ top' = 1
    \/ /\ packet'.size >= 1 /\ packet'.kind = handles
       /\ ResetTLVs /\ FromBytes /\ top' = 1

\* DecodePacket reads a header to find the type and makes a new message.
DecodePacket ==
    \/ /\ packet'.size < headerSize \/ packet'.kind = "Other"
       /\ Return("error") /\ top' = 0
       /\ UNCHANGED tlvs
    \/ /\ packet'.size >= headerSize /\ packet'.kind # "Other"
       /\ tlvs' = <<>> /\ FromBytes /\ top' = headerSize

\* The socket read the handlers wait in.
ReadPacket ==
    /\ pc = "receive" /\ received < MaxPackets
    /\ received' = received + 1

\* A packet of unknown origin.
ReceiveAny ==
    /\ ReadPacket
    /\ \E kind \in MessageKind, size \in BufferSizes, ml \in MessageLengths :
          Arrive(kind, size, ml, Unknown)
    /\ Handle("DelayReq") \/ Handle("Signaling") \/ DecodePacket

\* A client's request reaches the server, an Announce another client.
ReceiveRequest ==
    /\ ReadPacket
    /\ \E m \in ClientMessages, e \in ExtraBytes :
          /\ Arrive(m.kind, BytesTo(m) + e, m.MessageLength, m)
          /\ \/ m.kind = "DelayReq" /\ Handle("DelayReq")
             \/ m.kind = "Signaling" /\ Handle("Signaling")
             \/ m.kind = "Announce" /\ DecodePacket

\* A message of the server reaches a client built on this package.
ReceiveResponse ==
    /\ ReadPacket
    /\ \E m \in ServerMessages, e \in ExtraBytes :
          Arrive(m.kind, BytesTo(m) + e, m.MessageLength, m)
    /\ DecodePacket

-----------------------------------------------------------------------------
(***************************************************************************)
(* UnmarshalBinary                                                         *)
(***************************************************************************)
\* Mutant: MessageLength is taken as it comes.
CheckPacketLengthNever == TRUE

WithTLVs == {"Sync", "DelayReq", "Announce", "Signaling"}

CheckPacketLength == packet.MessageLength <= packet.size

\* The length checks; with both passed, the fixed part is read.
Unmarshal(kinds, min) ==
    /\ pc = "unmarshal" /\ packet.kind \in kinds
    /\ \/ /\ packet.size < min
          /\ Return("error") /\ UNCHANGED top
       \/ /\ packet.size >= min /\ ~CheckPacketLength
          /\ Return("error") /\ Reads(headerSize)
       \/ /\ packet.size >= min /\ CheckPacketLength
          /\ Reads(FixedSize(packet.kind))
          /\ IF packet.kind \in WithTLVs
               THEN pc' = "tlvs" /\ UNCHANGED result
               ELSE Return("ok")
    /\ UNCHANGED <<received, packet, made, pos, tlvs>>

UnmarshalAnnounce == Unmarshal({"Announce"}, headerSize + 30)
UnmarshalSyncDelayReq == Unmarshal({"Sync", "DelayReq"}, headerSize + 10)
UnmarshalFollowUp == Unmarshal({"FollowUp"}, headerSize + 10)
UnmarshalDelayResp == Unmarshal({"DelayResp"}, headerSize + 20)
UnmarshalSignaling == Unmarshal({"Signaling"}, headerSize + 10 + tlvHeadSize)

UnmarshalBinary ==
    \/ UnmarshalAnnounce \/ UnmarshalSyncDelayReq \/ UnmarshalFollowUp
    \/ UnmarshalDelayResp \/ UnmarshalSignaling

-----------------------------------------------------------------------------
(***************************************************************************)
(* readTLVs                                                                *)
(***************************************************************************)
maxLength == packet.MessageLength - FixedSize(packet.kind)

\* len(b[pos:]) in readTLVs, and an index into it as one into the packet.
Rest == packet.size - FixedSize(packet.kind) - pos
At(i) == FixedSize(packet.kind) + pos + i

MoreTLVs == pos + tlvHeadSize <= maxLength

\* The bytes at pos, read as a TLV.
TLVsHere ==
    LET here == {i \in 1..Len(made.tlvs) : made.at[i] = At(0)}
    IN  IF made = Unknown THEN FreeTLVs
        ELSE IF here = {} THEN {ZeroBytes} ELSE {made.tlvs[i] : i \in here}

CheckTLVLength(t) ==
    /\ t.type \in StrictTLV => t.len = Want(t.type)
    /\ t.len >= Want(t.type)
    /\ tlvHeadSize + t.len <= Rest

\* The loop of PathTraceTLV: identity i is read while i*8 <= LengthField and
\* tlvHeadSize + i*8 + 8 < len(b).
PathSequence(t) ==
    Smaller(t.len \div 8, (Rest - tlvHeadSize - 8 - 1) \div 8) + 1

\* PTPText.UnmarshalBinary, its LengthField at index 15 of the TLV's body: the
\* length is checked in a uint8, then the reader runs out if it is too short.
TextFits(t) ==
    LET left == Rest - (tlvHeadSize + 15)
    IN  t.text = 0 \/ (left >= (t.text + 1) % 256 /\ left - 1 >= t.text)

\* Indices of b[pos:] read for the body, from 0.
BodyRead(t) ==
    CASE t.type = "PathTrace"           -> tlvHeadSize + 8 * PathSequence(t)
      [] t.type = "AlternateTimeOffset" ->
            tlvHeadSize + 16 + IF TextFits(t) THEN t.text ELSE 0
      [] OTHER                          -> tlvHeadSize + Want(t.type)

\* No case for the type.
ReadUnknownTLV(t) ==
    /\ t.type = "Unknown"
    /\ Return("error") /\ Reads(At(2))
    /\ UNCHANGED <<pos, tlvs>>

RejectLength(t) ==
    /\ t.type \in KnownTLV /\ ~CheckTLVLength(t)
    /\ Return("error") /\ Reads(At(tlvHeadSize))
    /\ UNCHANGED <<pos, tlvs>>

RejectText(t) ==
    /\ t.type = "AlternateTimeOffset" /\ CheckTLVLength(t) /\ ~TextFits(t)
    /\ Return("error") /\ Reads(At(BodyRead(t)))
    /\ UNCHANGED <<pos, tlvs>>

\* Mutant: the position stays where it is.
NextPosStuck(t) == pos

\* The position after a TLV.
NextPos(t) == pos + tlvHeadSize + t.len

AppendTLV(t) ==
    /\ t.type \in KnownTLV /\ CheckTLVLength(t)
    /\ t.type = "AlternateTimeOffset" => TextFits(t)
    /\ tlvs' = Append(tlvs, t)
    /\ pos' = NextPos(t)
    /\ Reads(At(BodyRead(t)))
    /\ UNCHANGED <<pc, result>>

ReadTLV ==
    /\ pc = "tlvs" /\ MoreTLVs
    /\ \E t \in TLVsHere :
          ReadUnknownTLV(t) \/ RejectLength(t) \/ RejectText(t) \/ AppendTLV(t)
    /\ UNCHANGED <<received, packet, made>>

\* The end of the loop; a Signaling message needs a TLV.
EndTLVs ==
    /\ pc = "tlvs" /\ ~MoreTLVs
    /\ IF packet.kind = "Signaling" /\ tlvs = <<>>
         THEN Return("error") ELSE Return("ok")
    /\ UNCHANGED <<received, packet, made, pos, tlvs, top>>

-----------------------------------------------------------------------------
Next == ReceiveAny \/ ReceiveRequest \/ ReceiveResponse \/ UnmarshalBinary \/ ReadTLV \/ EndTLVs

Spec == Init /\ [][Next]_vars

-----------------------------------------------------------------------------
(***************************************************************************)
(* Properties                                                              *)
(***************************************************************************)
DecodedTLV == [type : KnownTLV, len : 0..MaxUint16, text : 0..MaxUint8]

(***************************************************************************)
(* The decoder's variables have their types; MessageLength and LengthField *)
(* keep within a uint16 (protocol.go:65, tlvs.go:35).                      *)
(***************************************************************************)
TypeOK ==
    /\ received \in 0..MaxPackets
    /\ pc \in {"receive", "unmarshal", "tlvs"}
    /\ packet \in [kind : MessageKind, size : Nat, MessageLength : 0..MaxUint16]
    /\ made \in {Unknown} \cup ServerMessages \cup ClientMessages
    /\ pos \in Nat
    /\ tlvs \in Seq(DecodedTLV)
    /\ top \in Nat
    /\ result \in {"none", "ok", "error", "ignored"}

(***************************************************************************)
(* No packet, whatever its MessageLength, TLV lengths and text lengths     *)
(* say, makes the decoder index past the bytes received: with one index    *)
(* out of range the handler panics and the server with it.                 *)
(***************************************************************************)
InBounds == top <= packet.size

(***************************************************************************)
(* readTLVs turns at most once for every six bytes of the message: no      *)
(* packet keeps a handler in the loop or grows the list of TLVs further.   *)
(***************************************************************************)
LoopBounded ==
    pc = "tlvs" \/ result = "ok" =>
        tlvs = <<>> \/ 6 * Len(tlvs) <= maxLength + 2

(***************************************************************************)
(* Every message the server sends, and every request a client sends it, is *)
(* decoded to the same TLVs, whatever was decoded before into the same     *)
(* struct and however many bytes trail it (BytesTo adds two itself).  The  *)
(* names in NameLengths have at least three bytes: with a shorter one an   *)
(* ALTERNATE_TIME_OFFSET_INDICATOR is marshalled that the decoder refuses. *)
(***************************************************************************)
RoundTrip ==
    made # Unknown /\ pc = "receive" =>
        /\ result = "ok"
        /\ tlvs = made.tlvs
=============================================================================
