---------------------------- MODULE PacketProgram ----------------------------
(***************************************************************************)
(* A program that makes packets or gets them from elsewhere, marks them,    *)
(* adapts them, by copying or by moving them, and makes new ones with their *)
(* headers (the C++ API and c/ais_packet.cc, c/ais_packet_as.cc,            *)
(* gstreamer/ais_type_utils.cc).  A packet that is moved from is empty.     *)
(***************************************************************************)
EXTENDS Packets

CONSTANTS PacketValues,   \* the values it packs
          StrangePackets  \* the packets it gets, whoever made them

ASSUME ValuesAssumption == \A v \in PacketValues : v \in Values /\ WellFormed(v)
ASSUME StrangeAssumption == \A p \in StrangePackets : p \in AnyPacket

VARIABLES packetAt,  \* "start", "packet", "adapted", "converted", "image", "aborted"
          packet,    \* the packet of its AIS_Packet
          adapted,   \* the PacketAs it made last, or what a conversion returned
          made       \* history: the value and the header the packet ought to have

packetVars == <<packetAt, packet, adapted, made>>

PacketInit ==
    /\ packetAt = "start" /\ packet = EmptyPacket
    /\ adapted = [type |-> "none", header |-> EmptyHeader, result |-> Failed("UNKNOWN")]
    /\ made = [value |-> NoValue, header |-> EmptyHeader]

\* MakePacket, AIS_NewEosPacket, AIS_NewStringPacket, AIS_NewBytesPacket,
\* AIS_NewGstreamerBufferPacket
PacketMade ==
    /\ packetAt = "start" /\ packetAt' = "packet"
    /\ \E v \in PacketValues :
           /\ packet' = MakePacket(v, EmptyHeader)
           /\ made' = [value |-> v, header |-> packet'.header]
    /\ UNCHANGED adapted

\* AIS_NewPacket, filled by AIS_ReceivePacket
PacketArrives ==
    /\ packetAt = "start" /\ packetAt' = "packet"
    /\ packet' \in StrangePackets
    /\ made' = [value |-> NoValue, header |-> packet'.header]
    /\ UNCHANGED adapted

\* AIS_SetIsKeyFrame, AIS_SetIsFrameHead
PacketMarked ==
    /\ packetAt = "packet"
    /\ \E flag \in {"FrameHead", "KeyFrame"}, yes \in BOOLEAN :
           /\ packet' = SetIs(flag, yes, packet)
           /\ made' = [made EXCEPT !.header.flags = IF yes THEN @ \cup {flag} ELSE @ \ {flag}]
    /\ UNCHANGED <<packetAt, adapted>>

\* InsertStringAddendum, InsertProtoAddendum, DeleteAddendum
PacketNoted ==
    /\ packetAt = "packet"
    /\ \E key \in AddendumKeys :
           \/ \E value \in {"string", "number", "message"} :
                  /\ packet' = InsertAddendum(key, value, packet)
                  /\ made' = [made EXCEPT !.header.addenda[key] =
                                  IF @ = "absent" THEN value ELSE @]
           \/ /\ packet' = DeleteAddendum(key, packet)
              /\ made' = [made EXCEPT !.header.addenda[key] = "absent"]
    /\ UNCHANGED <<packetAt, adapted>>

\* PacketAs<T>(packet): the packet is copied.
PacketCopiedAs(T) ==
    /\ packetAt = "packet" /\ packetAt' = "adapted"
    /\ adapted' = PacketAs(packet, T)
    /\ UNCHANGED <<packet, made>>

\* PacketAs<T>(std::move(packet)), AIS_NewGstreamerBufferPacketAs: the packet is
\* gone, even if the adaptation fails.
PacketMovedAs(T) ==
    /\ packetAt = "packet" /\ packetAt' = "adapted"
    /\ adapted' = PacketAs(packet, T) /\ packet' = EmptyPacket
    /\ UNCHANGED made

\* MakePacket with the value and the header of the PacketAs
PacketRemade ==
    /\ packetAt = "adapted" /\ adapted.result.code = "OK"
    /\ packetAt' = "packet"
    /\ packet' = MakePacket(adapted.result.value, adapted.header)
    /\ made' = [made EXCEPT !.header.flags = packet'.header.flags]
    /\ UNCHANGED adapted

\* A conversion either returns or is the last that the program does.
Converted(to, outcome) ==
    /\ packetAt' = IF outcome = Aborted THEN "aborted" ELSE to
    /\ adapted' = [type |-> "none", header |-> EmptyHeader, result |-> outcome]

\* AIS_ToGstreamerBuffer: the packet is gone, and its header with it.
PacketConverts ==
    /\ packetAt = "packet"
    /\ \E outcome \in GstreamerBufferOutcomes(packet) : Converted("converted", outcome)
    /\ packet' = EmptyPacket
    /\ UNCHANGED made

\* ToRawImage
BufferConverts ==
    /\ packetAt = "converted" /\ adapted.result.code = "OK"
    /\ \E outcome \in RawImageOutcomes(adapted.result.value) : Converted("image", outcome)
    /\ UNCHANGED <<packet, made>>

PacketNext ==
    \/ PacketMade \/ PacketArrives \/ PacketMarked \/ PacketNoted
    \/ \E T \in CppTypes : PacketCopiedAs(T) \/ PacketMovedAs(T)
    \/ PacketRemade \/ PacketConverts \/ BufferConverts

-----------------------------------------------------------------------------
(* Properties.                                                              *)

\* A packet is adapted as the type it was made of, and as no other, and gives
\* back its value with every mark that was put on it, through any number of new
\* packets made of them; whatever packet is adapted, the constructor of a
\* RawImage, which dies of a wrong size, gets the right one.
AdaptedAsMade ==
    packetAt = "adapted" =>
        LET result == adapted.result
        IN  /\ adapted.header = made.header
            /\ made.value # NoValue =>
                   IF adapted.type = made.value.type THEN result = Ok(made.value)
                   ELSE result.code # "OK"
            /\ result.code = "OK" /\ result.value.type = "RawImage" =>
                   GetBufferSize(result.value.about) = Len(result.value.bytes)

\* An RGB image that is sent in a packet, converted for GStreamer, and converted
\* back is the image it was, whether or not its rows had to be padded; no call
\* fails, and the program dies of none but an image whose padded bytes are more
\* than an int counts.
ImagesKept ==
    (made.value.type = "RawImage" /\ made.value.about.format = "SRGB") =>
        /\ packetAt = "converted" => adapted.result.code = "OK"
        /\ packetAt = "image" => adapted.result = Ok(made.value)
        /\ packetAt = "aborted" => PaddingOverflows(made.value.about)
=============================================================================
