------------------------------- MODULE Packets -------------------------------
(***************************************************************************)
(* Packets (base/make_packet.h, base/packet_flags.cc, base/packet_as.h,     *)
(* base/util/packet_utils.cc, base/types/packet_types,                      *)
(* gstreamer/type_utils.cc): how a value becomes a packet, how a packet is  *)
(* marked, asked what it is, and adapted back to a value.  No state.        *)
(*                                                                          *)
(* A value has a C++ type, what its type descriptor tells about it, and     *)
(* bytes.  A call that returns a StatusOr returns a code and a value.       *)
(***************************************************************************)
EXTENDS Integers, Sequences

CONSTANTS IntMax,        \* the largest int
          AddendumKeys   \* keys of addenda

ASSUME IntAssumption == IntMax \in Nat \ {0}

\* name: of a protobuf message, of a control signal, or the media type of caps;
\* "none" where there is none
About(name, format, height, width) ==
    [name |-> name, format |-> format, height |-> height, width |-> width]
Nothing == About("none", "none", 0, 0)

Value(type, about, bytes) == [type |-> type, about |-> about, bytes |-> bytes]
NoValue == Value("none", Nothing, <<>>)
Eos(reason) == Value("Eos", About("EOS", "none", 0, 0), reason)
GstreamerBuffer(caps, bytes) == Value("GstreamerBuffer", caps, bytes)
RawImage(format, height, width, bytes) ==
    Value("RawImage", About("none", format, height, width), bytes)

Ok(v) == [code |-> "OK", value |-> v]
Failed(code) == [code |-> code, value |-> NoValue]

\* The call does not return: the program is gone.
Aborted == Failed("aborted")

\* PacketTypeTraits: every message type is a protobuf.
Messages == {"MessageA", "MessageB"}
CppTypes == {"Eos", "GstreamerBuffer", "RawImage", "JpegFrame", "string"} \cup Messages
TypeId(T) ==
    CASE T = "Eos"             -> "CONTROL_SIGNAL"
      [] T = "GstreamerBuffer" -> "GSTREAMER_BUFFER"
      [] T = "RawImage"        -> "RAW_IMAGE"
      [] T = "JpegFrame"       -> "JPEG"
      [] T = "string"          -> "STRING"
      [] T \in Messages        -> "PROTOBUF"

\* A type descriptor is an Any: the message it holds is named like the type id.
Descriptor(of, about) == [of |-> of, about |-> about]
EmptyHeader == [type_id |-> "UNKNOWN", descriptor |-> Descriptor("nothing", Nothing),
                flags |-> {}, addenda |-> [k \in AddendumKeys |-> "absent"]]
EmptyPacket == [header |-> EmptyHeader, payload |-> <<>>]

\* What no protobuf parser accepts.
Malformed == <<-1>>

\* What there is, as far as the code tells it apart: a media type other than
\* these two is no raw image, a format of GStreamer other than RGB has one plane,
\* like GRAY8, or several, like I420.
TypeIds == {"UNKNOWN", "CONTROL_SIGNAL", "GSTREAMER_BUFFER", "RAW_IMAGE", "JPEG", "STRING",
            "PROTOBUF"}
Abouts  == [name : {"none", "EOS", "image/jpeg", "video/x-raw"} \cup Messages,
            format : {"none", "SRGB", "UNKNOWN", "RGB", "GRAY8", "I420", "text"},
            height : Int, width : Int]
Values  == [type : CppTypes, about : Abouts, bytes : Seq(Int)]
Headers == [type_id : TypeIds,
            descriptor : [of : TypeIds \cup {"nothing"}, about : Abouts],
            flags : SUBSET {"FrameHead", "KeyFrame"},
            addenda : [AddendumKeys -> {"absent", "string", "number", "message"}]]
AnyPacket == [header : Headers, payload : Seq(Int)]

-----------------------------------------------------------------------------
(* base/packet_flags.cc: a set of bits.                                     *)

SetPacketFlags(flags, p)   == [p EXCEPT !.header.flags = @ \cup flags]
UnsetPacketFlags(flags, p) == [p EXCEPT !.header.flags = @ \ flags]
ClearPacketFlags(p)        == [p EXCEPT !.header.flags = {}]

RestoreDefaultPacketFlags(p) ==
    IF p.header.type_id \in {"JPEG", "RAW_IMAGE", "PROTOBUF", "STRING", "GSTREAMER_BUFFER"}
    THEN SetPacketFlags({"FrameHead", "KeyFrame"}, ClearPacketFlags(p))
    ELSE ClearPacketFlags(p)

\* AIS_SetIsKeyFrame, AIS_SetIsFrameHead
SetIs(flag, yes, p) == IF yes THEN SetPacketFlags({flag}, p) ELSE UnsetPacketFlags({flag}, p)

-----------------------------------------------------------------------------
(* Raw images (base/types/raw_image_helpers.cc): the size of the bytes, by  *)
(* multiplications of ints that are checked.                                *)

GetNumChannels(format) == IF format = "SRGB" THEN 3 ELSE 1

ValidDescriptor(d) == d.height >= 0 /\ d.width >= 0

GetBufferSize(d) ==
    LET pixels == d.height * d.width
    IN  IF pixels > IntMax \/ pixels * GetNumChannels(d.format) > IntMax THEN -1
        ELSE pixels * GetNumChannels(d.format)

\* What the constructor of each type sees to.
WellFormed(v) ==
    /\ v.type = "Eos" => v.about = About("EOS", "none", 0, 0) /\ v.bytes # Malformed
    /\ v.type = "RawImage" =>
           /\ v.about = About("none", v.about.format, v.about.height, v.about.width)
           /\ ValidDescriptor(v.about) /\ GetBufferSize(v.about) = Len(v.bytes)
    /\ v.type \in Messages =>
           /\ v.about.name = v.type /\ v.about.format # "text" /\ v.bytes # Malformed
    /\ v.type \in {"JpegFrame", "string"} => v.about = Nothing

-----------------------------------------------------------------------------
(* Pack and Unpack (base/types/packet_types).                               *)

\* packet_type_descriptor leaves the Any alone for a type that needs none: what
\* the header had before stays.
PackedDescriptor(v, descriptor) ==
    IF v.type \in {"JpegFrame", "string"} THEN descriptor
    ELSE Descriptor(TypeId(v.type), v.about)

PackInto(v, p) ==
    [header |-> [p.header EXCEPT !.type_id = TypeId(v.type),
                                 !.descriptor = PackedDescriptor(v, @)],
     payload |-> v.bytes]

\* MakePacket with a header: what is not about the value is kept, but for the
\* flags.
MakePacket(v, header) ==
    RestoreDefaultPacketFlags(PackInto(v, [header |-> header, payload |-> <<>>]))

\* MakeEosPacket
MakeEosPacket(reason) == MakePacket(Eos(reason), EmptyHeader)

\* The UnpackPayload of each type succeeds.
EosUnpacks(p) ==
    /\ p.header.descriptor.of = "CONTROL_SIGNAL" /\ p.header.descriptor.about.name = "EOS"
    /\ p.payload # Malformed
GstreamerBufferUnpacks(p) == p.header.descriptor.of = "GSTREAMER_BUFFER"
RawImageUnpacks(p) ==
    /\ p.header.descriptor.of = "RAW_IMAGE"
    /\ ValidDescriptor(p.header.descriptor.about)
    /\ GetBufferSize(p.header.descriptor.about) = Len(p.payload)
MessageUnpacks(p, T) ==
    /\ p.header.descriptor.of = "PROTOBUF" /\ p.header.descriptor.about.name = T
    /\ p.header.descriptor.about.format # "text" /\ p.payload # Malformed

UnpackPayload(p, T) ==
    /\ T = "Eos" => EosUnpacks(p)
    /\ T = "GstreamerBuffer" => GstreamerBufferUnpacks(p)
    /\ T = "RawImage" => RawImageUnpacks(p)
    /\ T \in Messages => MessageUnpacks(p, T)

\* A type that needs no descriptor tells nothing about itself.
Unpacked(p, T) ==
    Value(T, IF T \in {"JpegFrame", "string"} THEN Nothing ELSE p.header.descriptor.about,
          p.payload)

\* Unpack.  Mutant: ValidateUnpackArgs does not compare the type ids.
UnpackUnchecked(p, T) ==
    IF UnpackPayload(p, T) THEN Ok(Unpacked(p, T)) ELSE Failed("UNKNOWN")

UnpackAs(p, T) ==
    IF p.header.type_id # TypeId(T) THEN Failed("INVALID_ARGUMENT")
    ELSE IF UnpackPayload(p, T) THEN Ok(Unpacked(p, T)) ELSE Failed("UNKNOWN")

\* PacketAs<T>: the header survives the adaptation, whether or not it succeeds.
PacketAs(p, T) == [type |-> T, header |-> p.header, result |-> UnpackAs(p, T)]

-----------------------------------------------------------------------------
(* base/util/packet_utils.cc                                                *)

\* GetControlSignalTypeId fails without the descriptor of a control signal.
\* The payload of an EOS packet does not matter.
IsControlSignal(p) == p.header.type_id = "CONTROL_SIGNAL"
IsEos(p) ==
    /\ IsControlSignal(p)
    /\ p.header.descriptor.of = "CONTROL_SIGNAL" /\ p.header.descriptor.about.name = "EOS"

\* Addenda: a "string" or another "number" in a protobuf Value, or a "message".
InsertAddendum(key, value, p) ==
    IF p.header.addenda[key] = "absent" THEN [p EXCEPT !.header.addenda[key] = value] ELSE p

DeleteAddendum(key, p) == [p EXCEPT !.header.addenda[key] = "absent"]

-----------------------------------------------------------------------------
(* gstreamer/type_utils.cc.  The rows of an RGB buffer of GStreamer are     *)
(* padded to a multiple of 4 bytes; those of a RawImage are not.            *)

RoundUp4(n) == ((n + 3) \div 4) * 4

RgbCaps(height, width) == About("video/x-raw", "RGB", height, width)

\* The ints of RgbRawImageToGstreamerBuffer are not checked: with 3 bytes a
\* pixel, the padded rows may take more bytes than an int counts although the
\* image itself takes fewer.  An image without rows has no bytes whatever wraps.
PaddingOverflows(about) ==
    LET row == about.width * GetNumChannels(about.format)
    IN  /\ about.height > 0 /\ row % 4 # 0
        /\ RoundUp4(row) > IntMax \/ RoundUp4(row) * about.height > IntMax

\* RgbRawImageToGstreamerBuffer, as far as the ints go.  resize fills the padding
\* with zeros.
RgbRawImageToGstreamerBuffer(r) ==
    LET row    == r.about.width * GetNumChannels(r.about.format)
        stride == RoundUp4(row)
        padded == [b \in 1 .. stride * r.about.height |->
                      LET i == (b - 1) \div stride
                          o == (b - 1) % stride
                      IN  IF o < row THEN r.bytes[row * i + o + 1] ELSE 0]
    IN  GstreamerBuffer(RgbCaps(r.about.height, r.about.width),
                        IF row % 4 = 0 THEN r.bytes ELSE padded)

\* ToGstreamerBuffer(RawImage)
ImageToGstreamerBuffer(r) ==
    IF r.about.format # "SRGB" THEN Failed("UNIMPLEMENTED")
    ELSE Ok(RgbRawImageToGstreamerBuffer(r))

\* ToGstreamerBuffer(Packet)
ToGstreamerBuffer(p) ==
    LET as(T) == UnpackAs(p, T)
    IN  CASE p.header.type_id = "GSTREAMER_BUFFER" ->
                 IF as("GstreamerBuffer").code = "OK" THEN as("GstreamerBuffer")
                 ELSE Failed("INTERNAL")
          [] p.header.type_id = "JPEG" ->
                 Ok(GstreamerBuffer(About("image/jpeg", "none", 0, 0), as("JpegFrame").value.bytes))
          [] p.header.type_id = "RAW_IMAGE" ->
                 IF as("RawImage").code = "OK" THEN ImageToGstreamerBuffer(as("RawImage").value)
                 ELSE Failed("INTERNAL")
          [] p.header.type_id \notin {"GSTREAMER_BUFFER", "JPEG", "RAW_IMAGE"} ->
                 Failed("INVALID_ARGUMENT")

\* What becomes of it: an int that overflows is negative, as a rule, the size that
\* resize gets of it is one that no string has, and nobody catches what it throws.
\* A compiler that counts in more bits gets the padded bytes right.
GstreamerBufferOutcomes(p) ==
    LET image == UnpackAs(p, "RawImage")
    IN  {ToGstreamerBuffer(p)} \cup
            {o \in {Aborted} : /\ image.code = "OK" /\ image.value.about.format = "SRGB"
                              /\ PaddingOverflows(image.value.about)}

\* ParseAsRawImageCaps succeeds: these are caps of a raw image in a format that
\* GStreamer knows, with all its bytes in one plane.
ParsesAsRawImage(caps) == caps.name = "video/x-raw" /\ caps.format \in {"RGB", "GRAY8"}

\* What gst_video_info_from_caps finds: the stride that GStreamer gives an RGB
\* image.
RowStride(caps) == RoundUp4(3 * caps.width)

\* What the program happens to have behind the end of a buffer.
Stray == -2

\* ToRgbRawImage: the bytes as they are if nothing is padded, or pixel by pixel.
\* Mutant: the padding is taken for pixels.
PaddingTaken(buffer) ==
    LET caps == buffer.about
    IN  RawImage("SRGB", caps.height, caps.width,
                 [b \in 1 .. 3 * caps.width * caps.height |->
                     IF b <= Len(buffer.bytes) THEN buffer.bytes[b] ELSE Stray])

ToRgbRawImage(buffer) ==
    LET caps == buffer.about
        row  == 3 * caps.width
        at(b) == LET i == (b - 1) \div row
                     j == ((b - 1) % row) \div 3
                     k == (b - 1) % 3
                 IN  RowStride(caps) * i + 3 * j + k + 1
        packed == [b \in 1 .. row * caps.height |->
                      IF at(b) <= Len(buffer.bytes) THEN buffer.bytes[at(b)] ELSE Stray]
    IN  RawImage("SRGB", caps.height, caps.width,
                 IF RowStride(caps) = row /\ Len(buffer.bytes) = caps.height * row
                 THEN buffer.bytes ELSE packed)

\* ToRawImage.  The constructor of a RawImage dies of a size that is none.
ToRawImage(buffer) ==
    LET caps  == buffer.about
        image == About("none", "SRGB", caps.height, caps.width)
    IN  CASE ~ParsesAsRawImage(caps) -> Failed("INVALID_ARGUMENT")
          [] ParsesAsRawImage(caps) /\ caps.format # "RGB" -> Failed("UNIMPLEMENTED")
          [] ParsesAsRawImage(caps) /\ caps.format = "RGB" ->
                 IF ValidDescriptor(image) /\ GetBufferSize(image) # -1
                 THEN Ok(ToRgbRawImage(buffer)) ELSE Aborted

\* The bytes up to the last one of the last pixel.
BytesRead(caps) == RowStride(caps) * (caps.height - 1) + 3 * caps.width

\* What becomes of it: neither the length of the buffer nor the ints that tell the
\* place of a pixel are checked, and what is not the buffer's may not be there.
RawImageOutcomes(buffer) ==
    LET caps == buffer.about
    IN  {ToRawImage(buffer)} \cup
            {o \in {Aborted} : /\ ToRawImage(buffer).code = "OK"
                              /\ caps.height > 0 /\ caps.width > 0
                              /\ \/ BytesRead(caps) > Len(buffer.bytes)
                                 \/ BytesRead(caps) > IntMax \/ RowStride(caps) > IntMax}
=============================================================================
