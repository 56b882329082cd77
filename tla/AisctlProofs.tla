---------------------------- MODULE AisctlProofs ----------------------------
(* Proofs about Aisctl and what it is composed of: packets, the sender and   *)
(* receiver under the command lines and the gstreamer elements, and their    *)
(* stream.  For any command lines, any values sent, any strange packets on   *)
(* the stream, any buffers to ingest and any bounds.                         *)
EXTENDS Aisctl, FiniteSetTheorems, SequenceTheorems, TLAPS

LEMMA Divide ==
    ASSUME NEW d \in Nat \ {0}, NEW q \in Nat, NEW r \in 0 .. d - 1
    PROVE  /\ (d * q + r) \div d = q
           /\ (d * q + r) % d = r
OBVIOUS

LEMMA Divided ==
    ASSUME NEW d \in Nat \ {0}, NEW n \in Nat
    PROVE  /\ n \div d \in Nat /\ n % d \in 0 .. d - 1
           /\ n = d * (n \div d) + (n % d)
OBVIOUS

\* The remainder modulo 3 is that of the remainder modulo a multiple of 3.
LEMMA Modulo3 ==
    ASSUME NEW w \in Nat \ {0}, NEW n \in Nat
    PROVE  n % 3 = (n % (3 * w)) % 3
<1> DEFINE d == 3 * w
           q == n \div d
           r == n % d
           s == r \div 3
           t == r % 3
<1>1. d \in Nat \ {0}
    OBVIOUS
<1>2. q \in Nat /\ r \in Nat /\ n = d * q + r
    <2> HIDE DEF d
    <2>. QED
        BY <1>1, Divided
<1>3. s \in Nat /\ t \in 0 .. 2 /\ r = 3 * s + t
    <2> HIDE DEF r
    <2>1. 3 \in Nat \ {0} /\ r \in Nat
        BY <1>2
    <2>. QED
        BY <2>1, Divided
<1> HIDE DEF q, r, s, t
<1>4. w * q \in Nat /\ d * q = 3 * (w * q)
    BY <1>2
<1>5. n = 3 * (w * q + s) + t /\ w * q + s \in Nat
    BY <1>2, <1>3, <1>4
<1>6. n % 3 = t
    <2> DEFINE m == w * q + s
    <2> HIDE DEF m
    <2>1. n = 3 * m + t /\ m \in Nat
        BY <1>5 DEF m
    <2>. QED
        BY <2>1, <1>3, Divide
<1>. QED
    BY <1>6 DEF t, r

LEMMA Rows ==
    ASSUME NEW d \in Nat \ {0}, NEW h \in Nat, NEW n \in Nat, n < d * h
    PROVE  n \div d < h
OBVIOUS

LEMMA RoundUp ==
    ASSUME NEW n \in Nat
    PROVE RoundUp4(n) \in Nat /\ RoundUp4(n) >= n /\ (RoundUp4(n) = n <=> n % 4 = 0)
BY DEF RoundUp4

LEMMA Sizes ==
    ASSUME NEW h \in Nat, NEW w \in Nat
    PROVE  /\ 3 * w \in Nat /\ (3 * w) * h \in Nat /\ w * 3 = 3 * w
           /\ (h * w) * 3 = (3 * w) * h /\ h * (3 * w) = (3 * w) * h
OBVIOUS

LEMMA RowsFit ==
    ASSUME NEW s \in Nat, NEW h \in Nat, NEW i \in Nat, i < h, NEW o \in 0 .. s - 1
    PROVE  s * i + o + 1 \in 1 .. s * h
<1>1. PICK j \in Nat : h = i + 1 + j
    <2>. WITNESS h - i - 1 \in Nat
    <2>. QED
        OBVIOUS
<1>2. s * h = s * i + s + s * j /\ s * i \in Nat /\ s * j \in Nat
    BY <1>1
<1>. QED
    BY <1>2

LEMMA RgbImage ==
    ASSUME NEW r \in Values, WellFormed(r), r.type = "RawImage", r.about.format = "SRGB"
    PROVE  \E h \in Nat, w \in Nat :
               /\ r = RawImage("SRGB", h, w, r.bytes)
               /\ r.bytes \in Seq(Int) /\ Len(r.bytes) = (3 * w) * h
               /\ r.about.height = h /\ r.about.width = w /\ (3 * w) * h <= IntMax
<1> DEFINE about == r.about
           h == about.height
           w == about.width
<1>1. /\ about \in Abouts /\ r.bytes \in Seq(Int)
      /\ r = [type |-> "RawImage", about |-> about, bytes |-> r.bytes]
    BY DEF Values
<1>2. /\ about = About("none", "SRGB", h, w) /\ ValidDescriptor(about)
      /\ GetBufferSize(about) = Len(r.bytes)
    BY DEF WellFormed
<1>a. about.format = "SRGB"
    OBVIOUS
<1> HIDE DEF about
<1>b. h \in Int /\ w \in Int
    BY <1>1 DEF Abouts
<1>c. h >= 0 /\ w >= 0
    BY <1>2 DEF ValidDescriptor
<1>3. h \in Nat /\ w \in Nat /\ about.format = "SRGB"
    <2> HIDE DEF h, w
    <2>. QED
        BY <1>a, <1>b, <1>c
<1>4. GetBufferSize(about) = IF h * w > IntMax \/ (h * w) * 3 > IntMax THEN -1 ELSE (h * w) * 3
    BY <1>3 DEF GetBufferSize, GetNumChannels
<1> HIDE DEF h, w
<1>5. Len(r.bytes) \in Nat
    BY <1>1, LenProperties
<1>6. Len(r.bytes) = (3 * w) * h
    <2> DEFINE size == (h * w) * 3
    <2>1. size = (3 * w) * h
        BY <1>3, Sizes
    <2>2. GetBufferSize(about) \in {-1, size}
        BY <1>4
    <2>3. \A n \in Nat : n # -1
        OBVIOUS
    <2>4. Len(r.bytes) = GetBufferSize(about)
        BY <1>2
    <2> HIDE DEF size
    <2>5. Len(r.bytes) = size
        BY <1>5, <2>2, <2>3, <2>4
    <2>. QED
        BY <2>1, <2>5
<1>7. r = RawImage("SRGB", h, w, r.bytes)
    BY <1>1, <1>2 DEF RawImage, Value
<1>8. (3 * w) * h <= IntMax
    <2>1. (h * w) * 3 = (3 * w) * h
        BY <1>3, Sizes
    <2>2. GetBufferSize(about) # -1
        BY <1>2, <1>5
    <2>3. ~((h * w) * 3 > IntMax)
        BY <1>4, <2>2
    <2> DEFINE size == (h * w) * 3
    <2>4. size \in Nat /\ size = (3 * w) * h
        BY <1>3, Sizes
    <2> HIDE DEF size
    <2>5. ~(size > IntMax)
        BY <2>3 DEF size
    <2>6. size <= IntMax
        BY <2>4, <2>5, IntAssumption
    <2>. QED
        BY <2>4, <2>6
<1>9. r.about.height = h /\ r.about.width = w
    BY DEF h, w, about
<1>. QED
    BY <1>1, <1>3, <1>6, <1>7, <1>8, <1>9

LEMMA SameImage ==
    ASSUME NEW h \in Nat, NEW w \in Nat,
           NEW bytes \in Seq(Int), Len(bytes) = (3 * w) * h
    PROVE  LET r == RawImage("SRGB", h, w, bytes)
           IN  ToRgbRawImage(RgbRawImageToGstreamerBuffer(r)) = r
<1> DEFINE r      == RawImage("SRGB", h, w, bytes)
           row    == 3 * w
           stride == RoundUp4(row)
           pad(b) == LET i == (b - 1) \div stride
                         o == (b - 1) % stride
                     IN  IF o < row THEN bytes[row * i + o + 1] ELSE 0
           padded == [b \in 1 .. stride * h |-> pad(b)]
           buffer == RgbRawImageToGstreamerBuffer(r)
           spot(b) == LET i == (b - 1) \div row
                          j == ((b - 1) % row) \div 3
                          k == (b - 1) % 3
                      IN  stride * i + 3 * j + k + 1
           packed == [b \in 1 .. row * h |->
                         IF spot(b) <= Len(padded) THEN padded[spot(b)] ELSE Stray]
<1>1. /\ r.about.height = h /\ r.about.width = w /\ r.bytes = bytes
      /\ GetNumChannels(r.about.format) = 3
    BY DEF RawImage, Value, About, GetNumChannels
<1>4. row \in Nat /\ row * h \in Nat /\ w * 3 = row /\ h * row = row * h
    BY Sizes
<1>5. stride \in Nat /\ stride >= row /\ (stride = row <=> row % 4 = 0)
    BY <1>4, RoundUp
<1>7. buffer = GstreamerBuffer(RgbCaps(h, w), IF row % 4 = 0 THEN bytes ELSE padded)
    BY <1>1, <1>4 DEF RgbRawImageToGstreamerBuffer
<1>a. stride * h \in Nat
    BY <1>5
<1>b. Len(padded) = stride * h
    <2> DEFINE size == stride * h
    <2> HIDE DEF size, pad
    <2>1. Len([b \in 1 .. size |-> pad(b)]) = size
        BY <1>a DEF size
    <2>. QED
        BY <2>1 DEF size
<1> HIDE DEF buffer, pad, padded
<1>8. buffer.about.height = h /\ buffer.about.width = w
    BY <1>7 DEF GstreamerBuffer, Value, RgbCaps, About
<1>9. buffer.bytes = IF row % 4 = 0 THEN bytes ELSE padded
    BY <1>7 DEF GstreamerBuffer, Value
<1> HIDE DEF row, stride, packed, spot
<1>10. CASE row % 4 = 0
    <2>1. RowStride(buffer.about) = row /\ Len(buffer.bytes) = h * row
        BY <1>4, <1>5, <1>8, <1>9, <1>10 DEF RowStride, row, stride
    <2>2. ToRgbRawImage(buffer) = RawImage("SRGB", h, w, buffer.bytes)
        BY <2>1, <1>8, <1>9, <1>10 DEF ToRgbRawImage, row
    <2>. QED
        BY <2>2, <1>9, <1>10 DEF buffer, r
<1>11. CASE row % 4 # 0
    <2>1. row # 0 /\ w # 0 /\ row \in Nat \ {0} /\ stride \in Nat \ {0} /\ stride # row
        <3>1. row # 0
            BY <1>11
        <3>2. w # 0
            BY <3>1 DEF row
        <3>. QED
            BY <3>1, <3>2, <1>4, <1>5, <1>11
    <2>2. ToRgbRawImage(buffer) = RawImage("SRGB", h, w, packed)
        BY <2>1, <1>8, <1>9, <1>11 DEF ToRgbRawImage, RowStride, row, packed, stride, spot
    <2>3. ASSUME NEW b \in 1 .. row * h
          PROVE  packed[b] = bytes[b]
        <3> DEFINE n == b - 1
                   i == n \div row
                   o == n % row
                   x == stride * i + o
        <3>1. n \in Nat /\ n < row * h
            BY <1>4
        <3>2. i \in Nat /\ o \in 0 .. row - 1 /\ n = row * i + o /\ i < h
            BY <3>1, <2>1, Divided, Rows
        <3>3. n % 3 = o % 3
            BY <3>1, <2>1, Modulo3 DEF row
        <3>4. 3 * (o \div 3) + (o % 3) = o
            BY <3>2, <2>1
        <3>5. spot(b) = stride * i + 3 * (o \div 3) + (n % 3) + 1
            BY DEF spot
        <3>6. stride * i \in Nat /\ row * i \in Nat
            BY <3>2, <2>1, <1>4
        <3> HIDE DEF n, i, o
        <3>7. spot(b) = x + 1
            BY <3>3, <3>4, <3>5, <3>6, <3>2, <2>1
        <3>8. x \div stride = i /\ x % stride = o
            <4>1. o \in 0 .. stride - 1
                BY <3>2, <2>1, <1>5
            <4>. QED
                BY <4>1, <3>2, <2>1, Divide
        <3>9. x + 1 \in 1 .. stride * h
            <4>1. o \in 0 .. stride - 1
                BY <3>2, <2>1, <1>5
            <4>2. stride * i + o + 1 \in 1 .. stride * h
                BY <4>1, <3>2, <2>1, RowsFit
            <4>. QED
                BY <4>2
        <3> HIDE DEF x
        <3>10. x \in Nat
            BY <3>2, <3>6, <1>4 DEF x
        <3>11. padded[x + 1] = bytes[row * i + o + 1]
            <4>1. (x + 1) - 1 = x /\ o < row
                BY <1>4, <3>10, <3>2
            <4>2. padded[x + 1] = pad(x + 1)
                BY <3>9 DEF padded
            <4>. QED
                BY <4>1, <4>2, <3>8 DEF pad
        <3>12. row * i + o + 1 = b
            BY <3>2, <3>6, <1>4 DEF n
        <3>13. packed[b] = padded[x + 1]
            <4> DEFINE size == stride * h
            <4>1. x + 1 \in 1 .. size /\ Len(padded) = size /\ size \in Nat
                BY <3>9, <1>a, <1>b
            <4> HIDE DEF size
            <4>2. x + 1 <= Len(padded)
                BY <4>1
            <4>3. packed[b] = IF spot(b) <= Len(padded) THEN padded[spot(b)] ELSE Stray
                BY DEF packed
            <4>. QED
                BY <4>2, <4>3, <3>7
        <3>. QED
            BY <3>11, <3>12, <3>13
    <2>4. packed = [b \in 1 .. row * h |-> packed[b]]
        BY DEF packed
    <2>5. bytes = [b \in 1 .. row * h |-> bytes[b]]
        BY <1>4, LenProperties DEF row
    <2>6. packed = bytes
        BY <2>3, <2>4, <2>5
    <2>. QED
        BY <2>2, <2>6 DEF buffer, r
<1>. QED
    BY <1>10, <1>11

-----------------------------------------------------------------------------
(* Packets: what a packet holds of the value it was made of.                *)

Mades == [value : Values \cup {NoValue}, header : Headers]

\* What packing puts into a packet, and a header that has kept every mark.
Holds(p, m) ==
    /\ p.header = m.header
    /\ m.value # NoValue =>
           /\ p.header.type_id = TypeId(m.value.type) /\ p.payload = m.value.bytes
           /\ m.value.type \notin {"JpegFrame", "string"} =>
                  p.header.descriptor = Descriptor(TypeId(m.value.type), m.value.about)

LEMMA ValueTypes ==
    /\ NoValue \notin Values /\ Nothing \in Abouts
    /\ EmptyHeader \in Headers /\ EmptyPacket \in AnyPacket
    /\ \A T \in CppTypes : TypeId(T) \in TypeIds
    /\ \A v \in Values :
           /\ v = Value(v.type, v.about, v.bytes)
           /\ v.type \in CppTypes /\ v.about \in Abouts /\ v.bytes \in Seq(Int)
    /\ \A T \in CppTypes, a \in Abouts, b \in Seq(Int) : Value(T, a, b) \in Values
<1>1. NoValue \notin Values
    BY DEF NoValue, Values, Value, CppTypes, Messages
<1>2. Nothing \in Abouts
    BY DEF Nothing, About, Abouts
<1>3. EmptyHeader \in Headers
    BY <1>2 DEF EmptyHeader, Headers, Descriptor, TypeIds
<1>4. <<>> \in Seq(Int)
    OBVIOUS
<1>5. EmptyPacket \in AnyPacket
    BY <1>3, <1>4 DEF EmptyPacket, AnyPacket
<1>6. \A T \in CppTypes : TypeId(T) \in TypeIds
    BY DEF CppTypes, TypeId, TypeIds, Messages
<1>. QED
    BY <1>1, <1>2, <1>3, <1>5, <1>6 DEF Values, Value

LEMMA HeaderPacked ==
    ASSUME NEW h \in Headers, NEW t, NEW d
    PROVE  [h EXCEPT !.type_id = t, !.descriptor = d] =
               [type_id |-> t, descriptor |-> d, flags |-> h.flags, addenda |-> h.addenda]
<1> DEFINE k == [h EXCEPT !.type_id = t]
           e == [k EXCEPT !.descriptor = d]
<1>1. /\ DOMAIN h = {"type_id", "descriptor", "flags", "addenda"}
      /\ h = [f \in DOMAIN h |-> h[f]]
    BY DEF Headers
<1>2. /\ DOMAIN k = DOMAIN h /\ k = [f \in DOMAIN k |-> k[f]]
      /\ k.flags = h.flags /\ k.addenda = h.addenda /\ k.type_id = t
    BY <1>1
<1> HIDE DEF k
<1>3. /\ DOMAIN e = DOMAIN k /\ e = [f \in DOMAIN e |-> e[f]] /\ e.flags = k.flags
      /\ e.addenda = k.addenda /\ e.type_id = k.type_id /\ e.descriptor = d
    BY <1>1, <1>2
<1> HIDE DEF e
<1>4. e = [type_id |-> t, descriptor |-> d, flags |-> h.flags, addenda |-> h.addenda]
    BY <1>1, <1>2, <1>3
<1>. QED
    BY <1>4 DEF e, k

\* Packing keeps what is not about the value, but for the flags.
LEMMA Packing ==
    ASSUME NEW v \in Values, NEW h \in Headers
    PROVE  \E f \in SUBSET {"FrameHead", "KeyFrame"} :
               MakePacket(v, h) =
                   [header |-> [type_id |-> TypeId(v.type),
                                descriptor |-> PackedDescriptor(v, h.descriptor),
                                flags |-> f, addenda |-> h.addenda],
                    payload |-> v.bytes]
<1> DEFINE g(f) == [type_id |-> TypeId(v.type),
                    descriptor |-> PackedDescriptor(v, h.descriptor),
                    flags |-> f, addenda |-> h.addenda]
           p(f) == [header |-> g(f), payload |-> v.bytes]
<1>1. PackInto(v, [header |-> h, payload |-> <<>>]) = p(h.flags)
    <2>1. \A t, d : [h EXCEPT !.type_id = t, !.descriptor = d] =
                        [type_id |-> t, descriptor |-> d, flags |-> h.flags, addenda |-> h.addenda]
        BY HeaderPacked
    <2>2. [header |-> h, payload |-> <<>>].header = h
        OBVIOUS
    <2>3. PackInto(v, [header |-> h, payload |-> <<>>]) =
              [header |-> [h EXCEPT !.type_id = TypeId(v.type),
                                    !.descriptor = PackedDescriptor(v, h.descriptor)],
               payload |-> v.bytes]
        BY <2>2 DEF PackInto
    <2>. QED
        BY <2>1, <2>3
<1>2. \A f, e : [p(f) EXCEPT !.header.flags = e] = p(e)
    OBVIOUS
<1>3. ClearPacketFlags(p(h.flags)) = p({})
    BY DEF ClearPacketFlags
<1>4. SetPacketFlags({"FrameHead", "KeyFrame"}, p({})) = p({"FrameHead", "KeyFrame"})
    BY DEF SetPacketFlags
<1>5. MakePacket(v, h) \in {p({}), p({"FrameHead", "KeyFrame"})}
    BY <1>1, <1>3, <1>4 DEF MakePacket, RestoreDefaultPacketFlags
<1>6. /\ {} \in SUBSET {"FrameHead", "KeyFrame"}
      /\ {"FrameHead", "KeyFrame"} \in SUBSET {"FrameHead", "KeyFrame"}
    OBVIOUS
<1>. QED
    BY <1>5, <1>6

LEMMA PackedType ==
    ASSUME NEW v \in Values, NEW h \in Headers
    PROVE  MakePacket(v, h) \in AnyPacket
<1>1. PICK f \in SUBSET {"FrameHead", "KeyFrame"} :
          MakePacket(v, h) =
              [header |-> [type_id |-> TypeId(v.type),
                           descriptor |-> PackedDescriptor(v, h.descriptor),
                           flags |-> f, addenda |-> h.addenda],
               payload |-> v.bytes]
    BY Packing
<1>2. PackedDescriptor(v, h.descriptor) \in [of : TypeIds \cup {"nothing"}, about : Abouts]
    BY ValueTypes DEF PackedDescriptor, Descriptor, Headers
<1>. QED
    BY <1>1, <1>2, ValueTypes DEF AnyPacket, Headers

\* A new packet of a value holds it.
LEMMA MadeHolds ==
    ASSUME NEW v \in Values
    PROVE  Holds(MakePacket(v, EmptyHeader),
                 [value |-> v, header |-> MakePacket(v, EmptyHeader).header])
<1>1. PICK f \in SUBSET {"FrameHead", "KeyFrame"} :
          MakePacket(v, EmptyHeader) =
              [header |-> [type_id |-> TypeId(v.type),
                           descriptor |-> PackedDescriptor(v, EmptyHeader.descriptor),
                           flags |-> f, addenda |-> EmptyHeader.addenda],
               payload |-> v.bytes]
    BY Packing, ValueTypes
<1>. QED
    BY <1>1 DEF Holds, PackedDescriptor

\* What an adaptation that succeeds has made sure of.
LEMMA Unpacks ==
    ASSUME NEW p \in AnyPacket, NEW T \in CppTypes, UnpackAs(p, T).code = "OK"
    PROVE  /\ UnpackAs(p, T) = Ok(Unpacked(p, T)) /\ Unpacked(p, T) \in Values
           /\ p.header.type_id = TypeId(T) /\ UnpackPayload(p, T)
<1>1. UnpackAs(p, T) = Ok(Unpacked(p, T)) /\ p.header.type_id = TypeId(T) /\ UnpackPayload(p, T)
    BY DEF UnpackAs, Failed
<1>2. p.header.descriptor.about \in Abouts /\ p.payload \in Seq(Int) /\ Nothing \in Abouts
    BY ValueTypes DEF AnyPacket, Headers
<1>3. Unpacked(p, T) \in Values
    BY <1>2, ValueTypes DEF Unpacked
<1>. QED
    BY <1>1, <1>3

\* A packet is adapted as the type it was made of, and gives back its value.
LEMMA RoundTrip ==
    ASSUME NEW p \in AnyPacket, NEW m \in Mades, Holds(p, m), m.value # NoValue,
           WellFormed(m.value), NEW T \in CppTypes, UnpackAs(p, T).code = "OK"
    PROVE  Unpacked(p, T) = m.value
<1>1. m.value \in Values
    BY DEF Mades
<1>2. p.header.type_id = TypeId(T) /\ UnpackPayload(p, T)
    BY Unpacks
<1>3. TypeId(m.value.type) = TypeId(T) /\ p.payload = m.value.bytes
    BY <1>2 DEF Holds
<1>4. m.value.type = T \/ (m.value.type \in Messages /\ T \in Messages)
    BY <1>1, <1>3, ValueTypes DEF TypeId, CppTypes, Messages
<1>5. CASE T \in {"JpegFrame", "string"}
    <2>1. m.value.type = T /\ m.value.about = Nothing
        BY <1>4, <1>5 DEF Messages, WellFormed
    <2>. QED
        BY <2>1, <1>1, <1>3, <1>5, ValueTypes DEF Unpacked
<1>6. CASE T \notin {"JpegFrame", "string"}
    <2>1. m.value.type \notin {"JpegFrame", "string"}
        BY <1>4, <1>6 DEF Messages
    <2>2. p.header.descriptor.about = m.value.about
        BY <2>1 DEF Holds, Descriptor
    <2>3. m.value.type = T
        <3>1. CASE T \in Messages
            <4>1. m.value.type \in Messages
                BY <1>4, <3>1
            <4>2. m.value.about.name = T
                BY <1>2, <2>2, <3>1 DEF UnpackPayload, MessageUnpacks
            <4>. QED
                BY <4>1, <4>2 DEF WellFormed
        <3>2. CASE T \notin Messages
            BY <1>4, <3>2
        <3>. QED
            BY <3>1, <3>2
    <2>. QED
        BY <2>2, <2>3, <1>1, <1>3, <1>6, ValueTypes DEF Unpacked
<1>. QED
    BY <1>5, <1>6

\* A packet is adapted as the type it was made of.
LEMMA AdaptsAsMade ==
    ASSUME NEW p \in AnyPacket, NEW m \in Mades, Holds(p, m), m.value # NoValue,
           WellFormed(m.value)
    PROVE  UnpackAs(p, m.value.type) = Ok(m.value)
<1> DEFINE v == m.value
           T == v.type
<1>1. v \in Values /\ T \in CppTypes
    BY ValueTypes DEF Mades
<1>2. p.header.type_id = TypeId(T) /\ p.payload = v.bytes
    BY DEF Holds
<1>3. ASSUME T \notin {"JpegFrame", "string"}
      PROVE  p.header.descriptor.of = TypeId(T) /\ p.header.descriptor.about = v.about
    BY <1>3 DEF Holds, Descriptor
<1>4. UnpackPayload(p, T)
    <2>1. T = "Eos" => EosUnpacks(p)
        <3> SUFFICES ASSUME T = "Eos" PROVE EosUnpacks(p)
            OBVIOUS
        <3>1. p.header.descriptor.of = TypeId("Eos") /\ p.header.descriptor.about = v.about
            BY <1>3
        <3>2. v.about.name = "EOS" /\ v.bytes # Malformed
            BY DEF WellFormed, About
        <3>. QED
            BY <1>2, <3>1, <3>2 DEF EosUnpacks, TypeId, Messages
    <2>2. T = "GstreamerBuffer" => GstreamerBufferUnpacks(p)
        BY <1>3 DEF GstreamerBufferUnpacks, TypeId, Messages
    <2>3. T = "RawImage" => RawImageUnpacks(p)
        <3> SUFFICES ASSUME T = "RawImage" PROVE RawImageUnpacks(p)
            OBVIOUS
        <3>1. p.header.descriptor.of = TypeId("RawImage") /\ p.header.descriptor.about = v.about
            BY <1>3
        <3>2. ValidDescriptor(v.about) /\ GetBufferSize(v.about) = Len(v.bytes)
            BY DEF WellFormed
        <3>. QED
            BY <1>2, <3>1, <3>2 DEF RawImageUnpacks, TypeId, Messages
    <2>4. T \in Messages => MessageUnpacks(p, T)
        <3> SUFFICES ASSUME T \in Messages PROVE MessageUnpacks(p, T)
            OBVIOUS
        <3>1. p.header.descriptor.of = TypeId(T) /\ p.header.descriptor.about = v.about
            BY <1>3 DEF Messages
        <3>2. v.about.name = T /\ v.about.format # "text" /\ v.bytes # Malformed
            BY DEF WellFormed
        <3>. QED
            BY <1>2, <3>1, <3>2 DEF MessageUnpacks, TypeId, Messages
    <2>. QED
        BY <2>1, <2>2, <2>3, <2>4 DEF UnpackPayload
<1>5. UnpackAs(p, T) = Ok(Unpacked(p, T))
    BY <1>2, <1>4 DEF UnpackAs
<1>6. UnpackAs(p, T).code = "OK"
    BY <1>5 DEF Ok
<1>7. Unpacked(p, T) = v
    BY <1>1, <1>6, RoundTrip
<1>. QED
    BY <1>5, <1>7

\* A packet is adapted as no other type than the one it was made of.
LEMMA AdaptsAsNoOther ==
    ASSUME NEW p \in AnyPacket, NEW m \in Mades, Holds(p, m), m.value # NoValue,
           WellFormed(m.value), NEW T \in CppTypes, T # m.value.type
    PROVE  UnpackAs(p, T).code # "OK"
<1> SUFFICES ASSUME UnpackAs(p, T).code = "OK" PROVE FALSE
    OBVIOUS
<1>1. Unpacked(p, T) = m.value
    BY RoundTrip
<1>2. Unpacked(p, T).type = T
    BY DEF Unpacked, Value
<1>. QED
    BY <1>1, <1>2

\* A new packet made of what an adaptation returned, value and header, differs
\* from the packet that was adapted in its flags only.
LEMMA RemadeHolds ==
    ASSUME NEW p \in AnyPacket, NEW m \in Mades, Holds(p, m),
           NEW T \in CppTypes, UnpackAs(p, T).code = "OK"
    PROVE  LET q == MakePacket(Unpacked(p, T), p.header)
           IN  Holds(q, [m EXCEPT !.header.flags = q.header.flags])
<1> DEFINE v == Unpacked(p, T)
           q == MakePacket(v, p.header)
           n == [m EXCEPT !.header.flags = q.header.flags]
<1>1. v \in Values /\ p.header.type_id = TypeId(T) /\ UnpackPayload(p, T) /\ p.header \in Headers
    BY Unpacks DEF AnyPacket
<1>2. PICK f \in SUBSET {"FrameHead", "KeyFrame"} :
          q = [header |-> [type_id |-> TypeId(v.type),
                           descriptor |-> PackedDescriptor(v, p.header.descriptor),
                           flags |-> f, addenda |-> p.header.addenda],
               payload |-> v.bytes]
    BY <1>1, Packing
<1>3. v.type = T /\ v.bytes = p.payload
    BY DEF Unpacked, Value
<1>4. PackedDescriptor(v, p.header.descriptor) = p.header.descriptor
    <2>1. CASE T \in {"JpegFrame", "string"}
        BY <2>1, <1>3 DEF PackedDescriptor
    <2>2. CASE T \notin {"JpegFrame", "string"}
        <3>1. p.header.descriptor.of = TypeId(T)
            BY <2>2, <1>1 DEF UnpackPayload, EosUnpacks, GstreamerBufferUnpacks,
                              RawImageUnpacks, MessageUnpacks, TypeId, CppTypes, Messages
        <3>2. v.about = p.header.descriptor.about
            BY <2>2 DEF Unpacked, Value
        <3>3. p.header.descriptor \in [of : TypeIds \cup {"nothing"}, about : Abouts]
            BY <1>1 DEF Headers
        <3>. QED
            BY <3>1, <3>2, <3>3, <2>2, <1>3 DEF PackedDescriptor, Descriptor
    <2>. QED
        BY <2>1, <2>2
<1>5. q.header = [p.header EXCEPT !.flags = q.header.flags] /\ q.payload = p.payload
    BY <1>1, <1>2, <1>3, <1>4 DEF Headers
<1> HIDE DEF q, v
<1>6. n.value = m.value /\ n.header = [m.header EXCEPT !.flags = q.header.flags]
    BY DEF Mades
<1>7. q.header.type_id = p.header.type_id /\ q.header.descriptor = p.header.descriptor
    BY <1>1, <1>5 DEF Headers
<1> HIDE DEF n
<1>8. Holds(q, n)
    BY <1>5, <1>6, <1>7 DEF Holds
<1>. QED
    BY <1>8 DEF q, v, n

\* Whatever packet is adapted, a RawImage has the bytes its size takes.
LEMMA ImageSize ==
    ASSUME NEW p \in AnyPacket, NEW T \in CppTypes, UnpackAs(p, T).code = "OK",
           UnpackAs(p, T).value.type = "RawImage"
    PROVE  GetBufferSize(UnpackAs(p, T).value.about) = Len(UnpackAs(p, T).value.bytes)
<1>1. UnpackAs(p, T).value = Unpacked(p, T) /\ UnpackPayload(p, T)
    BY Unpacks DEF Ok
<1>2. T = "RawImage"
    BY <1>1 DEF Unpacked, Value
<1>. QED
    BY <1>1, <1>2 DEF UnpackPayload, RawImageUnpacks, Unpacked, Value

\* An RGB image comes out of the conversions as it went in.
LEMMA ImageConverts ==
    ASSUME NEW p \in AnyPacket, NEW m \in Mades, Holds(p, m), m.value # NoValue,
           WellFormed(m.value), m.value.type = "RawImage", m.value.about.format = "SRGB"
    PROVE  /\ ToGstreamerBuffer(p).code = "OK"
           /\ ToGstreamerBuffer(p).value = RgbRawImageToGstreamerBuffer(m.value)
           /\ ToRawImage(ToGstreamerBuffer(p).value) = Ok(m.value)
           /\ UnpackAs(p, "RawImage").value = m.value
<1> DEFINE v == m.value
           buffer == RgbRawImageToGstreamerBuffer(v)
<1>1. v \in Values
    BY DEF Mades
<1>2. p.header.type_id = "RAW_IMAGE" /\ TypeId("RawImage") = "RAW_IMAGE" /\ "RawImage" \in CppTypes
    <2>1. TypeId("RawImage") = "RAW_IMAGE"
        BY DEF TypeId, Messages
    <2>. QED
        BY <2>1 DEF Holds, CppTypes
<1>3. p.header.descriptor = Descriptor("RAW_IMAGE", v.about) /\ p.payload = v.bytes
    BY <1>2 DEF Holds
<1>4. UnpackPayload(p, "RawImage")
    <2>1. ValidDescriptor(v.about) /\ GetBufferSize(v.about) = Len(v.bytes)
        BY DEF WellFormed
    <2>2. p.header.descriptor.of = "RAW_IMAGE" /\ p.header.descriptor.about = v.about
        BY <1>3 DEF Descriptor
    <2>3. RawImageUnpacks(p)
        BY <1>3, <2>1, <2>2 DEF RawImageUnpacks
    <2>. QED
        BY <2>3 DEF UnpackPayload, Messages
<1>5. UnpackAs(p, "RawImage").code = "OK"
    BY <1>2, <1>4 DEF UnpackAs, Ok
<1>6. UnpackAs(p, "RawImage").value = v
    BY <1>2, <1>5, RoundTrip, Unpacks DEF Ok
<1>7. ToGstreamerBuffer(p) = Ok(buffer)
    BY <1>2, <1>5, <1>6 DEF ToGstreamerBuffer, ImageToGstreamerBuffer
<1>8. ToRgbRawImage(buffer) = v
    BY <1>1, RgbImage, SameImage
<1>9. /\ buffer.about.name = "video/x-raw" /\ buffer.about.format = "RGB"
      /\ buffer.about.height = v.about.height /\ buffer.about.width = v.about.width
    BY DEF RgbRawImageToGstreamerBuffer, GstreamerBuffer, Value, RgbCaps, About
<1>a. About("none", "SRGB", buffer.about.height, buffer.about.width) = v.about
    BY <1>9 DEF WellFormed
<1>b. ValidDescriptor(v.about) /\ GetBufferSize(v.about) # -1
    <2>1. ValidDescriptor(v.about) /\ GetBufferSize(v.about) = Len(v.bytes)
        BY DEF WellFormed
    <2>2. Len(v.bytes) \in Nat
        BY <1>1, ValueTypes, LenProperties
    <2>. QED
        BY <2>1, <2>2
<1> HIDE DEF buffer
<1>10. ToRawImage(buffer) = Ok(v)
    BY <1>8, <1>9, <1>a, <1>b DEF ToRawImage, ParsesAsRawImage
<1>. QED
    BY <1>6, <1>7, <1>10 DEF Ok, buffer

\* What the conversion back reads is in the buffer, and an int counts it, unless
\* the padding takes more than that.
LEMMA Readable ==
    ASSUME NEW h \in Nat, NEW w \in Nat, h > 0,
           NEW bytes \in Seq(Int), Len(bytes) = (3 * w) * h, (3 * w) * h <= IntMax
    PROVE  LET r      == RawImage("SRGB", h, w, bytes)
               buffer == RgbRawImageToGstreamerBuffer(r)
           IN  /\ BytesRead(buffer.about) \in Nat /\ Len(buffer.bytes) \in Nat
               /\ RowStride(buffer.about) \in Nat
               /\ \/ PaddingOverflows(r.about)
                  \/ /\ BytesRead(buffer.about) <= Len(buffer.bytes)
                     /\ BytesRead(buffer.about) <= IntMax /\ RowStride(buffer.about) <= IntMax
<1> DEFINE r      == RawImage("SRGB", h, w, bytes)
           row    == 3 * w
           stride == RoundUp4(row)
           pad(b) == LET i == (b - 1) \div stride
                         o == (b - 1) % stride
                     IN  IF o < row THEN bytes[row * i + o + 1] ELSE 0
           padded == [b \in 1 .. stride * h |-> pad(b)]
           buffer == RgbRawImageToGstreamerBuffer(r)
           size   == stride * h
<1>1. /\ r.about.height = h /\ r.about.width = w /\ r.bytes = bytes
      /\ GetNumChannels(r.about.format) = 3
    BY DEF RawImage, Value, About, GetNumChannels
<1>2. row \in Nat /\ row * h \in Nat /\ w * 3 = row /\ row * h <= IntMax /\ Len(bytes) = row * h
    BY Sizes
<1>3. stride \in Nat /\ stride >= row /\ (stride = row <=> row % 4 = 0)
    BY <1>2, RoundUp
<1>4. buffer = GstreamerBuffer(RgbCaps(h, w), IF row % 4 = 0 THEN bytes ELSE padded)
    BY <1>1, <1>2 DEF RgbRawImageToGstreamerBuffer
<1>5. size \in Nat
    BY <1>3
<1>6. Len(padded) = size
    <2> HIDE DEF size, pad
    <2>1. Len([b \in 1 .. size |-> pad(b)]) = size
        BY <1>5
    <2>. QED
        BY <2>1 DEF size
<1>7. PaddingOverflows(r.about) <=> (row % 4 # 0 /\ (stride > IntMax \/ size > IntMax))
    BY <1>1, <1>2 DEF PaddingOverflows
<1> HIDE DEF buffer, pad, padded
<1>8. buffer.about.height = h /\ buffer.about.width = w
    BY <1>4 DEF GstreamerBuffer, Value, RgbCaps, About
<1>9. Len(buffer.bytes) = IF row % 4 = 0 THEN row * h ELSE size
    <2>1. buffer.bytes = IF row % 4 = 0 THEN bytes ELSE padded
        BY <1>4 DEF GstreamerBuffer, Value
    <2>. QED
        BY <2>1, <1>2, <1>6
<1>10. RowStride(buffer.about) = stride /\ BytesRead(buffer.about) = stride * (h - 1) + row
    BY <1>8 DEF RowStride, BytesRead
<1> HIDE DEF r, row, stride
<1>11. /\ stride * (h - 1) + stride = size /\ stride * (h - 1) \in Nat
       /\ row * (h - 1) + row = row * h /\ row * (h - 1) \in Nat
    BY <1>2, <1>3
<1>12. stride * (h - 1) + row <= size
    <2> DEFINE rest == stride * (h - 1)
    <2>1. rest \in Nat /\ rest + stride = size
        BY <1>11
    <2> HIDE DEF rest, size
    <2>2. rest + row <= size
        BY <2>1, <1>2, <1>3, <1>5
    <2>. QED
        BY <2>2 DEF rest
<1>15. /\ BytesRead(buffer.about) \in Nat /\ Len(buffer.bytes) \in Nat
       /\ RowStride(buffer.about) \in Nat
    <2> HIDE DEF size
    <2>. QED
        BY <1>2, <1>3, <1>5, <1>9, <1>10, <1>11
<1> DEFINE Fits == /\ BytesRead(buffer.about) <= Len(buffer.bytes)
                   /\ BytesRead(buffer.about) <= IntMax /\ RowStride(buffer.about) <= IntMax
<1>13. ASSUME row % 4 = 0 PROVE Fits
    <2>1. stride = row
        BY <1>3, <1>13
    <2> DEFINE all == row * h
               rest == row * (h - 1)
    <2>2. rest \in Nat /\ rest + row = all /\ all <= IntMax /\ all \in Nat
        BY <1>2, <1>11
    <2>3. BytesRead(buffer.about) = rest + row /\ Len(buffer.bytes) = all
        BY <2>1, <1>9, <1>10, <1>13
    <2> HIDE DEF all, rest
    <2>4. row <= IntMax
        BY <2>2, <1>2, IntAssumption
    <2>5. BytesRead(buffer.about) <= Len(buffer.bytes) /\ BytesRead(buffer.about) <= IntMax
        BY <2>2, <2>3
    <2>. QED
        BY <2>1, <2>4, <2>5, <1>10
<1>14. ASSUME row % 4 # 0, ~PaddingOverflows(r.about) PROVE Fits
    <2> DEFINE read == stride * (h - 1) + row
    <2>1. ~(stride > IntMax) /\ ~(size > IntMax)
        BY <1>7, <1>14
    <2>2. read \in Nat /\ read <= size /\ BytesRead(buffer.about) = read
        BY <1>2, <1>10, <1>11, <1>12
    <2>3. Len(buffer.bytes) = size
        BY <1>9, <1>14
    <2> HIDE DEF read, size
    <2>4. read <= IntMax /\ stride <= IntMax
        BY <2>1, <2>2, <1>3, <1>5, IntAssumption
    <2>. QED
        BY <2>2, <2>3, <2>4, <1>10
<1>. QED
    BY <1>13, <1>14, <1>15 DEF r, buffer

\* An image of which the conversions die is one whose padding overflows.
LEMMA ImageAborts ==
    ASSUME NEW p \in AnyPacket, NEW m \in Mades, Holds(p, m), m.value # NoValue,
           WellFormed(m.value), m.value.type = "RawImage", m.value.about.format = "SRGB",
           \/ Aborted \in GstreamerBufferOutcomes(p)
           \/ Aborted \in RawImageOutcomes(ToGstreamerBuffer(p).value)
    PROVE  PaddingOverflows(m.value.about)
<1> DEFINE v == m.value
           buffer == RgbRawImageToGstreamerBuffer(v)
<1>1. /\ ToGstreamerBuffer(p).code = "OK" /\ ToGstreamerBuffer(p).value = buffer
      /\ ToRawImage(buffer) = Ok(v) /\ UnpackAs(p, "RawImage").value = v
    BY ImageConverts
<1>2. Aborted.code = "aborted" /\ Ok(v).code = "OK"
    BY DEF Aborted, Failed, Ok
<1>3. CASE Aborted \in GstreamerBufferOutcomes(p)
    BY <1>1, <1>2, <1>3 DEF GstreamerBufferOutcomes
<1>4. CASE Aborted \in RawImageOutcomes(buffer)
    <2>1. v \in Values
        BY DEF Mades
    <2>2. PICK h \in Nat, w \in Nat :
              /\ v = RawImage("SRGB", h, w, v.bytes)
              /\ v.bytes \in Seq(Int) /\ Len(v.bytes) = (3 * w) * h
              /\ v.about.height = h /\ v.about.width = w /\ (3 * w) * h <= IntMax
        BY <2>1, RgbImage
    <2>3. buffer.about.height = h /\ buffer.about.width = w
        BY <2>2 DEF RgbRawImageToGstreamerBuffer, GstreamerBuffer, Value, RgbCaps, About
    <2> HIDE DEF buffer
    <2>4. /\ h > 0
          /\ \/ BytesRead(buffer.about) > Len(buffer.bytes)
             \/ BytesRead(buffer.about) > IntMax \/ RowStride(buffer.about) > IntMax
        BY <1>1, <1>2, <1>4, <2>3 DEF RawImageOutcomes
    <2> DEFINE read == BytesRead(buffer.about)
               size == Len(buffer.bytes)
               rs   == RowStride(buffer.about)
    <2>5. /\ read \in Nat /\ size \in Nat /\ rs \in Nat
          /\ PaddingOverflows(v.about) \/ (read <= size /\ read <= IntMax /\ rs <= IntMax)
        BY <2>2, <2>4, Readable DEF buffer
    <2>7. read > size \/ read > IntMax \/ rs > IntMax
        BY <2>4
    <2> HIDE DEF read, size, rs
    <2>8. ~(read <= size /\ read <= IntMax /\ rs <= IntMax)
        BY <2>5, <2>7, IntAssumption
    <2>. QED
        BY <2>5, <2>8
<1>. QED
    BY <1>1, <1>3, <1>4

\* AdaptedAsMade and ImagesKept are not inductive: what is adapted has to be a
\* packet that holds its value still.
PacketInv ==
    /\ packet \in AnyPacket /\ made \in Mades
    /\ made.value # NoValue => WellFormed(made.value)
    /\ packetAt = "packet" => Holds(packet, made)
    /\ packetAt = "adapted" =>
           \E p \in AnyPacket, T \in CppTypes : Holds(p, made) /\ adapted = PacketAs(p, T)
    /\ packetAt = "converted" =>
           \E p \in AnyPacket :
               Holds(p, made) /\ adapted.result = ToGstreamerBuffer(p)
    /\ packetAt = "image" =>
           \E p \in AnyPacket :
               /\ Holds(p, made) /\ ToGstreamerBuffer(p).code = "OK"
               /\ adapted.result = ToRawImage(ToGstreamerBuffer(p).value)
    /\ (/\ packetAt = "aborted"
        /\ made.value.type = "RawImage" /\ made.value.about.format = "SRGB") =>
           PaddingOverflows(made.value.about)

LEMMA PacketInitial == PacketInit => PacketInv
<1> SUFFICES ASSUME PacketInit PROVE PacketInv
    OBVIOUS
<1>1. /\ made = [value |-> NoValue, header |-> EmptyHeader]
      /\ packet = EmptyPacket /\ packetAt = "start"
    BY DEF PacketInit
<1>2. made \in Mades /\ made.value = NoValue
    BY <1>1, ValueTypes DEF Mades
<1>. QED
    BY <1>1, <1>2, ValueTypes DEF PacketInv

\* A packet is marked: its flags and its addenda are the same as those of the
\* header it ought to have.
LEMMA Marked ==
    ASSUME packetAt = "packet", Holds(packet, made),
           packet'.header = made'.header, packet'.payload = packet.payload,
           packet'.header.type_id = packet.header.type_id,
           packet'.header.descriptor = packet.header.descriptor, made'.value = made.value
    PROVE  Holds(packet', made')
BY DEF Holds

LEMMA PacketKept == PacketInv /\ PacketNext => PacketInv'
<1> SUFFICES ASSUME PacketInv, PacketNext PROVE PacketInv'
    OBVIOUS
<1>0. /\ packet \in AnyPacket /\ made \in Mades /\ (made.value # NoValue => WellFormed(made.value))
      /\ made.value \in Values \cup {NoValue} /\ made.header \in Headers
    BY DEF PacketInv, Mades
<1>1. CASE PacketMade
    <2>1. PICK v \in PacketValues :
              /\ packet' = MakePacket(v, EmptyHeader)
              /\ made' = [value |-> v, header |-> packet'.header]
        BY <1>1 DEF PacketMade
    <2>2. v \in Values /\ WellFormed(v)
        BY ValuesAssumption
    <2>3. packet' \in AnyPacket
        BY <2>1, <2>2, ValueTypes, PackedType
    <2>4. made' \in Mades /\ made'.value = v
        BY <2>1, <2>2, <2>3 DEF Mades, AnyPacket
    <2>5. Holds(packet, made)'
        <3>1. Holds(packet', made')
            BY <2>1, <2>2, MadeHolds
        <3>. QED
            BY <3>1 DEF Holds
    <2>6. packetAt' = "packet"
        BY <1>1 DEF PacketMade
    <2>. QED
        BY <2>2, <2>3, <2>4, <2>5, <2>6 DEF PacketInv
<1>2. CASE PacketArrives
    <2>1. /\ packet' \in AnyPacket /\ made' = [value |-> NoValue, header |-> packet'.header]
          /\ packetAt' = "packet"
        BY <1>2, StrangeAssumption DEF PacketArrives
    <2>2. made' \in Mades /\ made'.value = NoValue /\ made'.header = packet'.header
        BY <2>1 DEF Mades, AnyPacket
    <2>. QED
        BY <2>1, <2>2 DEF PacketInv, Holds
<1>3. CASE PacketMarked
    <2>1. PICK flag \in {"FrameHead", "KeyFrame"}, yes \in BOOLEAN :
              /\ packet' = SetIs(flag, yes, packet)
              /\ made' = [made EXCEPT !.header.flags = IF yes THEN @ \cup {flag} ELSE @ \ {flag}]
        BY <1>3 DEF PacketMarked
    <2> DEFINE f == IF yes THEN packet.header.flags \cup {flag} ELSE packet.header.flags \ {flag}
    <2>2. packetAt = "packet" /\ packetAt' = "packet" /\ Holds(packet, made)
        BY <1>3 DEF PacketMarked, PacketInv
    <2>3. packet.header = made.header
        BY <2>2 DEF Holds
    <2>4. packet' = [packet EXCEPT !.header.flags = f]
        BY <2>1 DEF SetIs, SetPacketFlags, UnsetPacketFlags
    <2>5. made' = [made EXCEPT !.header.flags = f]
        BY <2>1, <2>3
    <2>6. f \in SUBSET {"FrameHead", "KeyFrame"}
        BY <1>0 DEF AnyPacket, Headers
    <2> HIDE DEF f
    <2>7. /\ packet' \in AnyPacket /\ packet'.payload = packet.payload
          /\ packet'.header = [packet.header EXCEPT !.flags = f]
        BY <1>0, <2>4, <2>6 DEF AnyPacket, Headers
    <2>8. /\ made' \in Mades /\ made'.value = made.value
          /\ made'.header = [made.header EXCEPT !.flags = f]
        BY <1>0, <2>5, <2>6 DEF Mades, Headers
    <2>9. /\ packet'.header = made'.header
          /\ packet'.header.type_id = packet.header.type_id
          /\ packet'.header.descriptor = packet.header.descriptor
        BY <1>0, <2>3, <2>7, <2>8 DEF Headers
    <2>10. Holds(packet', made')
        BY <2>2, <2>7, <2>8, <2>9, Marked
    <2>. QED
        BY <1>0, <2>2, <2>7, <2>8, <2>10 DEF PacketInv, Holds
<1>4. CASE PacketNoted
    <2>0. packetAt = "packet" /\ packetAt' = "packet" /\ Holds(packet, made)
        BY <1>4 DEF PacketNoted, PacketInv
    <2>1. PICK key \in AddendumKeys, a \in {"absent", "string", "number", "message"} :
              /\ packet' = [packet EXCEPT !.header.addenda[key] = a]
              /\ made' = [made EXCEPT !.header.addenda[key] = a]
        <3>1. packet.header = made.header
            BY <2>0 DEF Holds
        <3>2. PICK key \in AddendumKeys :
                  \/ \E value \in {"string", "number", "message"} :
                         /\ packet' = InsertAddendum(key, value, packet)
                         /\ made' = [made EXCEPT !.header.addenda[key] =
                                         IF @ = "absent" THEN value ELSE @]
                  \/ /\ packet' = DeleteAddendum(key, packet)
                     /\ made' = [made EXCEPT !.header.addenda[key] = "absent"]
            BY <1>4 DEF PacketNoted
        <3>3. packet.header.addenda[key] \in {"absent", "string", "number", "message"}
            BY <1>0 DEF AnyPacket, Headers
        <3>4. packet = [packet EXCEPT !.header.addenda[key] = packet.header.addenda[key]]
            BY <1>0 DEF AnyPacket, Headers
        <3>5. CASE \E value \in {"string", "number", "message"} :
                       /\ packet' = InsertAddendum(key, value, packet)
                       /\ made' = [made EXCEPT !.header.addenda[key] =
                                       IF @ = "absent" THEN value ELSE @]
            <4>1. PICK value \in {"string", "number", "message"} :
                       /\ packet' = InsertAddendum(key, value, packet)
                       /\ made' = [made EXCEPT !.header.addenda[key] =
                                       IF made.header.addenda[key] = "absent" THEN value
                                       ELSE made.header.addenda[key]]
                BY <3>5
            <4>2. CASE packet.header.addenda[key] = "absent"
                BY <4>1, <4>2, <3>1 DEF InsertAddendum
            <4>3. CASE packet.header.addenda[key] # "absent"
                BY <4>1, <4>3, <3>1, <3>3, <3>4 DEF InsertAddendum
            <4>. QED
                BY <4>2, <4>3
        <3>6. CASE /\ packet' = DeleteAddendum(key, packet)
                   /\ made' = [made EXCEPT !.header.addenda[key] = "absent"]
            BY <3>6 DEF DeleteAddendum
        <3>. QED
            BY <3>2, <3>5, <3>6
    <2>2. /\ packet' \in AnyPacket /\ packet'.payload = packet.payload
          /\ packet'.header = [packet.header EXCEPT !.addenda[key] = a]
        BY <1>0, <2>1 DEF AnyPacket, Headers
    <2>3. /\ made' \in Mades /\ made'.value = made.value
          /\ made'.header = [made.header EXCEPT !.addenda[key] = a]
        BY <1>0, <2>1 DEF Mades, Headers
    <2>4. /\ packet'.header = made'.header
          /\ packet'.header.type_id = packet.header.type_id
          /\ packet'.header.descriptor = packet.header.descriptor
        BY <1>0, <2>0, <2>2, <2>3 DEF Headers, Holds
    <2>5. Holds(packet', made')
        BY <2>0, <2>2, <2>3, <2>4, Marked
    <2>. QED
        BY <1>0, <2>0, <2>2, <2>3, <2>5 DEF PacketInv, Holds
<1>5. ASSUME NEW T \in CppTypes, PacketCopiedAs(T) \/ PacketMovedAs(T)
      PROVE  PacketInv'
    <2>1. /\ packetAt' = "adapted" /\ made' = made /\ adapted' = PacketAs(packet, T)
          /\ packet' \in AnyPacket /\ Holds(packet, made)
        BY <1>0, <1>5, ValueTypes DEF PacketCopiedAs, PacketMovedAs, PacketInv
    <2>2. \E p \in AnyPacket, S \in CppTypes : Holds(p, made') /\ adapted' = PacketAs(p, S)
        BY <1>0, <2>1
    <2>. QED
        BY <1>0, <2>1, <2>2 DEF PacketInv, Holds
<1>6. CASE PacketRemade
    <2>1. /\ packetAt = "adapted" /\ adapted.result.code = "OK" /\ packetAt' = "packet"
          /\ packet' = MakePacket(adapted.result.value, adapted.header)
          /\ made' = [made EXCEPT !.header.flags = packet'.header.flags]
        BY <1>6 DEF PacketRemade
    <2>2. PICK p \in AnyPacket, T \in CppTypes : Holds(p, made) /\ adapted = PacketAs(p, T)
        BY <2>1 DEF PacketInv
    <2>3. UnpackAs(p, T).code = "OK" /\ adapted.result = UnpackAs(p, T) /\ adapted.header = p.header
        BY <2>1, <2>2 DEF PacketAs
    <2>4. adapted.result.value = Unpacked(p, T) /\ Unpacked(p, T) \in Values
        BY <2>3, Unpacks DEF Ok
    <2>5. packet' = MakePacket(Unpacked(p, T), p.header) /\ packet' \in AnyPacket
        BY <2>1, <2>3, <2>4, PackedType DEF AnyPacket
    <2>6. Holds(packet', made')
        BY <1>0, <2>1, <2>2, <2>3, <2>5, RemadeHolds
    <2>7. packet'.header.flags \in SUBSET {"FrameHead", "KeyFrame"}
        BY <2>5 DEF AnyPacket, Headers
    <2>8. made' \in Mades /\ made'.value = made.value
        BY <1>0, <2>1, <2>7 DEF Mades, Headers
    <2>. QED
        BY <1>0, <2>1, <2>5, <2>6, <2>8 DEF PacketInv, Holds
<1>7. CASE PacketConverts
    <2>1. PICK outcome \in GstreamerBufferOutcomes(packet) : Converted("converted", outcome)
        BY <1>7 DEF PacketConverts
    <2>2. made' = made /\ packet' \in AnyPacket /\ Holds(packet, made)
        BY <1>7, ValueTypes DEF PacketConverts, PacketInv
    <2>3. CASE outcome = Aborted
        <3>1. packetAt' = "aborted"
            BY <2>1, <2>3 DEF Converted
        <3>2. ASSUME made.value.type = "RawImage", made.value.about.format = "SRGB"
              PROVE  PaddingOverflows(made.value.about)
            <4>1. made.value # NoValue
                BY <3>2 DEF NoValue, Value
            <4>. QED
                BY <1>0, <2>1, <2>2, <2>3, <3>2, <4>1, ImageAborts
        <3>. QED
            BY <1>0, <2>2, <3>1, <3>2 DEF PacketInv
    <2>4. CASE outcome # Aborted
        <3>1. packetAt' = "converted" /\ adapted'.result = ToGstreamerBuffer(packet)
            BY <2>1, <2>4 DEF Converted, GstreamerBufferOutcomes
        <3>2. \E p \in AnyPacket : Holds(p, made') /\ adapted'.result = ToGstreamerBuffer(p)
            BY <1>0, <2>2, <3>1
        <3>. QED
            BY <1>0, <2>2, <3>1, <3>2 DEF PacketInv, Holds
    <2>. QED
        BY <2>3, <2>4
<1>8. CASE BufferConverts
    <2>1. PICK outcome \in RawImageOutcomes(adapted.result.value) : Converted("image", outcome)
        BY <1>8 DEF BufferConverts
    <2>2. /\ packetAt = "converted" /\ adapted.result.code = "OK"
          /\ packet' = packet /\ made' = made
        BY <1>8 DEF BufferConverts
    <2>3. PICK p \in AnyPacket : Holds(p, made) /\ adapted.result = ToGstreamerBuffer(p)
        BY <2>2 DEF PacketInv
    <2>4. ToGstreamerBuffer(p).code = "OK" /\ adapted.result.value = ToGstreamerBuffer(p).value
        BY <2>2, <2>3
    <2>5. CASE outcome = Aborted
        <3>1. packetAt' = "aborted"
            BY <2>1, <2>5 DEF Converted
        <3>2. ASSUME made.value.type = "RawImage", made.value.about.format = "SRGB"
              PROVE  PaddingOverflows(made.value.about)
            <4>1. made.value # NoValue
                BY <3>2 DEF NoValue, Value
            <4>. QED
                BY <1>0, <2>1, <2>3, <2>4, <2>5, <3>2, <4>1, ImageAborts
        <3>. QED
            BY <1>0, <2>2, <3>1, <3>2 DEF PacketInv
    <2>6. CASE outcome # Aborted
        <3>1. packetAt' = "image" /\ adapted'.result = ToRawImage(ToGstreamerBuffer(p).value)
            BY <2>1, <2>4, <2>6 DEF Converted, RawImageOutcomes
        <3>2. \E q \in AnyPacket :
                  /\ Holds(q, made') /\ ToGstreamerBuffer(q).code = "OK"
                  /\ adapted'.result = ToRawImage(ToGstreamerBuffer(q).value)
            BY <2>2, <2>3, <2>4, <3>1
        <3>. QED
            BY <1>0, <2>2, <3>1, <3>2 DEF PacketInv, Holds
    <2>. QED
        BY <2>5, <2>6
<1>. QED
    BY <1>1, <1>2, <1>3, <1>4, <1>5, <1>6, <1>7, <1>8 DEF PacketNext

LEMMA PacketInvSays == PacketInv => AdaptedAsMade /\ ImagesKept
<1> SUFFICES ASSUME PacketInv PROVE AdaptedAsMade /\ ImagesKept
    OBVIOUS
<1>1. /\ made \in Mades /\ (made.value # NoValue => WellFormed(made.value))
    BY DEF PacketInv
<1>2. AdaptedAsMade
    <2> SUFFICES ASSUME packetAt = "adapted" PROVE AdaptedAsMade
        BY DEF AdaptedAsMade
    <2>1. PICK p \in AnyPacket, T \in CppTypes : Holds(p, made) /\ adapted = PacketAs(p, T)
        BY DEF PacketInv
    <2>2. adapted.type = T /\ adapted.header = made.header /\ adapted.result = UnpackAs(p, T)
        BY <2>1 DEF PacketAs, Holds
    <2>3. ASSUME made.value # NoValue
          PROVE  IF adapted.type = made.value.type THEN adapted.result = Ok(made.value)
                 ELSE adapted.result.code # "OK"
        <3>1. CASE T = made.value.type
            BY <1>1, <2>1, <2>2, <2>3, <3>1, AdaptsAsMade
        <3>2. CASE T # made.value.type
            BY <1>1, <2>1, <2>2, <2>3, <3>2, AdaptsAsNoOther
        <3>. QED
            BY <3>1, <3>2, <2>2
    <2>4. ASSUME adapted.result.code = "OK", adapted.result.value.type = "RawImage"
          PROVE  GetBufferSize(adapted.result.value.about) = Len(adapted.result.value.bytes)
        BY <2>2, <2>4, ImageSize
    <2>. QED
        BY <2>2, <2>3, <2>4 DEF AdaptedAsMade
<1>3. ImagesKept
    <2> SUFFICES ASSUME made.value.type = "RawImage", made.value.about.format = "SRGB"
                 PROVE  /\ packetAt = "converted" => adapted.result.code = "OK"
                        /\ packetAt = "image" => adapted.result = Ok(made.value)
                        /\ packetAt = "aborted" => PaddingOverflows(made.value.about)
        BY DEF ImagesKept
    <2>0. made.value.type = "RawImage" /\ made.value.about.format = "SRGB"
        OBVIOUS
    <2>1. made.value # NoValue
        BY DEF NoValue, Value
    <2>2. \A p \in AnyPacket : Holds(p, made) =>
              /\ ToGstreamerBuffer(p).code = "OK"
              /\ ToRawImage(ToGstreamerBuffer(p).value) = Ok(made.value)
        BY <1>1, <2>1, ImageConverts
    <2>3. ASSUME packetAt = "converted" PROVE adapted.result.code = "OK"
        BY <2>2, <2>3 DEF PacketInv
    <2>4. ASSUME packetAt = "image" PROVE adapted.result = Ok(made.value)
        BY <2>2, <2>4 DEF PacketInv
    <2>5. packetAt = "aborted" => PaddingOverflows(made.value.about)
        BY <2>0 DEF PacketInv
    <2>. QED
        BY <2>3, <2>4, <2>5
<1>. QED
    BY <1>2, <1>3

\* Only a program that uses packets changes them.
LEMMA PacketSteps == [Next]_vars => PacketNext \/ UNCHANGED packetVars
BY DEF Next, vars, Cli, ManagerStep, ManagementServer, IngesterStep, Kill, StreamStep,
       ReceiverStep, ConsumerStep, ConsumerEnvironment, ChunkerStep, DirectStep, SinkStep,
       SrcStep, PacketStep

LEMMA PacketStutters == PacketInv /\ UNCHANGED packetVars => PacketInv'
BY DEF PacketInv, packetVars, Holds

\* PacketAs adapts a packet as the type of the value that it was made of, and gives
\* back that value, and fails to adapt it as any other: for all values that are
\* well formed, and whatever other packets arrive (MakePacket, PacketAs::Pack and
\* ProtoConvert).
THEOREM AdaptedAsMadeCorrect == Spec => []AdaptedAsMade
<1>1. Init => PacketInv
    BY PacketInitial DEF Init
<1>2. PacketInv /\ [Next]_vars => PacketInv'
    BY PacketSteps, PacketKept, PacketStutters
<1>. QED
    BY <1>1, <1>2, PacketInvSays, PTL DEF Spec

\* The pixels of an RGB image survive the way to a packet and back, and the way
\* through a gstreamer buffer, whose rows are padded to a multiple of four
\* (ToGstreamerBuffer and ToRawImage), unless the program dies of it, and then the
\* padded bytes are more than an int counts: for every largest int and all images.
THEOREM ImagesKeptCorrect == Spec => []ImagesKept
<1>1. Init => PacketInv
    BY PacketInitial DEF Init
<1>2. PacketInv /\ [Next]_vars => PacketInv'
    BY PacketSteps, PacketKept, PacketStutters
<1>. QED
    BY <1>1, <1>2, PacketInvSays, PTL DEF Spec

-----------------------------------------------------------------------------
(* What the steps of a sender do to what its element shows.                 *)

ConnFields == StringProperties \cup {"authenticate_with_google", "use_insecure_channel"}

Grows == UNCHANGED log \/ \E p : log' = Append(log, p)

SinkRests ==
    /\ UNCHANGED <<conn, session, sinkProps>>
    /\ ais_sender' = "live" => ais_sender = "live"
    /\ sinkAt = "none" => sinkAt' = "none" /\ ais_sender' = ais_sender

\* An element with these properties
SinkFresh(props) ==
    /\ UNCHANGED <<conn, session>>
    /\ sinkProps' = props /\ ais_sender' = "NULL"

SinkConnects ==
    /\ conn' = SenderOptions(sinkProps) /\ session' = session + 1
    /\ sinkAt = "null" /\ UNCHANGED sinkProps

SinkIsSet ==
    /\ UNCHANGED <<conn, session, ais_sender, sinkAt>>
    /\ \/ UNCHANGED sinkProps
       \/ \E name, value :
              /\ name \in ConnFields
              /\ name \in StringProperties => ais_sender = "NULL"
              /\ sinkProps' = [sinkProps EXCEPT ![name] = value]

LEMMA SenderCalls ==
    /\ \A p : SendPacket(p) => UNCHANGED <<conn, session>> /\ Grows
    /\ \A p : SendOk(p) \/ SendFails(p) => UNCHANGED <<conn, session>> /\ Grows
    /\ AbandonSender \/ DeleteSender \/ FinishReturns => UNCHANGED <<conn, session>> /\ Grows
<1>1. \A p : SendOk(p) \/ SendFails(p) => UNCHANGED <<conn, session>> /\ Grows
    BY DEF SendOk, SendFails, Grows, senderVars
<1>2. AbandonSender \/ DeleteSender \/ FinishReturns => UNCHANGED <<conn, session>> /\ Grows
    BY DEF AbandonSender, DeleteSender, FinishReturns, Grows
<1>. QED
    BY <1>1, <1>2 DEF SendPacket

LEMMA SinkStarts == SinkStart => SinkConnects /\ Grows /\ sinkAt' = "started"
BY DEF SinkStart, NewSender, CreateSender, SinkConnects, Grows

LEMMA IngestMoves ==
    IngestNext \/ IngestKilled =>
        /\ Grows /\ ing' = ing /\ (ingAt = "idle" <=> ingAt' = "idle")
        /\ SinkRests \/ (ingAt # "idle" /\ SinkFresh(Finalize(ing.conn))) \/ SinkConnects
<1> DEFINE Goal ==
        /\ Grows /\ ing' = ing /\ (ingAt = "idle" <=> ingAt' = "idle")
        /\ SinkRests \/ (ingAt # "idle" /\ SinkFresh(Finalize(ing.conn))) \/ SinkConnects
<1>1. IngestExits => UNCHANGED <<conn, session>> /\ Grows /\ ingAt' = "exited"
    BY SenderCalls DEF IngestExits, senderVars, Grows
<1>2. IngestBegins => Goal
    BY <1>1 DEF IngestBegins, Grows, SinkRests, sinkVars, senderVars
<1>3. IngestLaunchFails => Goal
    BY <1>1 DEF IngestLaunchFails, SinkRests, sinkVars
<1>4. IngestBuilds => Goal
    BY DEF IngestBuilds, SinkFresh, Grows, senderVars
<1>5. IngestPlays => Goal
    BY SinkStarts DEF IngestPlays, ingestVars
<1>6. IngestPlaying => Goal
    BY DEF IngestPlaying, SinkRests, Grows, ingestVars, sinkVars, senderVars
<1>7. IngestPlayFails => Goal
    BY <1>1 DEF IngestPlayFails, SinkGone, SinkRests
<1>8. SourcePushes => Goal
    BY DEF SourcePushes, RenderBegins, SinkRests, Grows, ingestVars, senderVars
<1>9. Rendered => Goal
    <2>1. Rendered => Grows /\ SinkRests
        BY SenderCalls
           DEF Rendered, RenderDrops, RenderSends, RenderFails, SinkRests, Grows, senderVars
    <2>. QED
        BY <2>1 DEF Rendered
<1>10. SourceEnds => Goal
    BY DEF SourceEnds, SinkRests, Grows, ingestVars, sinkVars, senderVars
<1>11. IngestPops => Goal
    BY DEF IngestPops, SinkRests, Grows, ingestVars, sinkVars, senderVars
<1>12. IngestStops => Goal
    <2>1. StopSendsEos(MaxBuffers + 1) \/ StopDeletesSender \/ StopReturns => Grows /\ SinkRests
        BY SenderCalls DEF StopSendsEos, StopDeletesSender, StopReturns, SinkRests, sinkVars
    <2>. QED
        BY <2>1 DEF IngestStops, ingestVars
<1>13. IngestReturns => Goal
    BY DEF IngestReturns, SinkGone, SinkRests, Grows, ingestVars, senderVars
<1>14. IngestNextIteration => Goal
    BY DEF IngestNextIteration, SinkRests, Grows, sinkVars, senderVars
<1>15. IngestKilled => Goal
    BY SenderCalls DEF IngestKilled, SinkGone, SinkRests
<1>. QED
    BY <1>2, <1>3, <1>4, <1>5, <1>6, <1>7, <1>8, <1>9, <1>10, <1>11, <1>12, <1>13, <1>14, <1>15
       DEF IngestNext

LEMMA SinkAppMoves ==
    AppNext =>
        /\ Grows
        /\ \/ SinkRests \/ SinkFresh([NoConn EXCEPT !.ssl_domain_name = "given"])
           \/ SinkConnects \/ SinkIsSet
<1> DEFINE Fresh == SinkFresh([NoConn EXCEPT !.ssl_domain_name = "given"])
<1>1. SinkCreated /\ UNCHANGED <<log, senderVars>> => Grows /\ Fresh
    BY DEF SinkCreated, Grows, SinkFresh, senderVars
<1>2. ASSUME NEW name \in ConnFields, NEW value, AppSets(name, value)
      PROVE  Grows /\ SinkIsSet
    <2>1. UNCHANGED <<log, conn, session, ais_sender, sinkAt>>
        BY <1>2 DEF AppSets, SinkSetProperty, senderVars
    <2>2. CASE name = "target_address"
        <3>1. sinkProps' = SetTargetAddress(value)
            BY <1>2, <2>2 DEF AppSets, SinkSetProperty, StringProperties
        <3>2. SetTargetAddress(value) = sinkProps
                   \/ /\ ais_sender = "NULL"
                      /\ SetTargetAddress(value) = [sinkProps EXCEPT ![name] = value]
            BY <2>2 DEF SetTargetAddress, AlreadyOpen
        <3>. QED
            BY <2>1, <3>1, <3>2 DEF Grows, SinkIsSet
    <2>3. CASE name \in StringProperties \ {"target_address"}
        <3>1. sinkProps' = SetString(name, value)
            BY <1>2, <2>3 DEF AppSets, SinkSetProperty, StringProperties
        <3>2. \/ SetString(name, value) = sinkProps
              \/ /\ ais_sender = "NULL"
                 /\ \E v : SetString(name, value) = [sinkProps EXCEPT ![name] = v]
            BY DEF SetString, AlreadyOpen
        <3>. QED
            BY <2>1, <3>1, <3>2 DEF Grows, SinkIsSet
    <2>4. CASE name \notin StringProperties
        <3>1. sinkProps' = [sinkProps EXCEPT ![name] = value]
            BY <1>2, <2>4 DEF AppSets, SinkSetProperty, StringProperties
        <3>. QED
            BY <2>1, <2>4, <3>1 DEF Grows, SinkIsSet
    <2>. QED
        BY <2>2, <2>3, <2>4
<1>3. {"target_address", "ssl_root_cert_path", "use_insecure_channel"} \subseteq ConnFields
    BY DEF ConnFields, StringProperties
<1>4. SinkStartFails => Grows /\ SinkRests
    BY DEF SinkStartFails, NewSender, CreateSenderFails, CreateSender, SinkRests, Grows, senderVars
<1>5. RenderBegins \/ RenderDrops => Grows /\ SinkRests
    BY DEF RenderBegins, RenderDrops, SinkRests, Grows, senderVars
<1>6. RenderSends(BufferPacket(1)) \/ RenderFails(BufferPacket(1)) => Grows /\ SinkRests
    BY SenderCalls DEF RenderSends, RenderFails, SinkRests
<1>7. StopSendsEos(2) \/ StopDeletesSender \/ StopReturns => Grows /\ SinkRests
    BY SenderCalls DEF StopSendsEos, StopDeletesSender, StopReturns, SinkRests, sinkVars
<1>. QED
    BY <1>1, <1>2, <1>3, <1>4, <1>5, <1>6, <1>7, SinkStarts DEF AppNext

\* The properties of a connected aissink can still be set, and a sender outlives
\* the element; what a sender is connected with was typed, since the element
\* has been made of it.  Who sends is settled by the scenario.
SenderTurns ==
    "direct" \in typed.runs => ingAt = "idle" /\ sinkAt = "none" /\ ais_sender = "NULL"

IngestAsked ==
    \A c \in typed.commands : c.cmd = "ingest" =>
        /\ ingAt = "idle" => sinkAt = "none" /\ session = 0
        /\ ingAt # "idle" => ing = IngestFlags(c)
        /\ sinkAt # "none" => sinkProps = Finalize(ing.conn)
        /\ session > 0 => conn = ConnFlags(c)

SenderInv ==
    /\ typed \in Scenarios /\ session \in Nat
    /\ DOMAIN sinkProps = ConnFields
    /\ SinkConnectedAsShown /\ SenderTurns /\ IngestAsked

SenderKeeps == UNCHANGED <<conn, session, sinkAt, sinkProps, ais_sender, ingAt, ing>>

LEMMA SenderSteps ==
    [Next]_vars =>
        /\ typed' = typed /\ Grows
        /\ \/ SenderKeeps
           \/ /\ UNCHANGED <<conn, session, sinkAt, sinkProps, ais_sender>>
              /\ ingAt = "idle" /\ ingAt' # "idle"
              /\ \E c \in typed.commands : c.cmd = "ingest" /\ ing' = IngestFlags(c)
           \/ IngestNext \/ IngestKilled
           \/ "direct" \in typed.runs /\ UNCHANGED <<sinkAt, sinkProps, ais_sender, ingAt, ing>>
                  /\ session' \in {session, session + 1}
           \/ "sink" \in typed.runs /\ AppNext /\ UNCHANGED <<ingAt, ing>>
<1> DEFINE Goal ==
        /\ typed' = typed /\ Grows
        /\ \/ SenderKeeps
           \/ /\ UNCHANGED <<conn, session, sinkAt, sinkProps, ais_sender>>
              /\ ingAt = "idle" /\ ingAt' # "idle"
              /\ \E c \in typed.commands : c.cmd = "ingest" /\ ing' = IngestFlags(c)
           \/ IngestNext \/ IngestKilled
           \/ "direct" \in typed.runs /\ UNCHANGED <<sinkAt, sinkProps, ais_sender, ingAt, ing>>
                  /\ session' \in {session, session + 1}
           \/ "sink" \in typed.runs /\ AppNext /\ UNCHANGED <<ingAt, ing>>
<1>1. ASSUME UNCHANGED <<typed, produceVars>> PROVE Goal
    BY <1>1 DEF produceVars, senderVars, sinkVars, ingestVars, SenderKeeps, Grows
<1>2. Cli => Goal
    <2> SUFFICES ASSUME NEW c \in typed.commands, CliExec(c), UNCHANGED <<typed, packetVars>>
                 PROVE  Goal
        BY DEF Cli
    <2>1. CASE UNCHANGED produceVars
        BY <2>1, <1>1
    <2>2. CASE /\ c.cmd = "ingest" /\ ingAt = "idle"
               /\ ingAt' = "start" /\ ing' = IngestFlags(c)
               /\ UNCHANGED <<log, senderVars, direct, sinkVars>>
        BY <2>2 DEF senderVars, sinkVars, Grows
    <2>. QED
        BY <2>1, <2>2 DEF CliExec, produceVars
<1>3. IngesterStep \/ Kill => Goal
    BY IngestMoves DEF IngesterStep, Kill
<1>4. StreamStep => Goal
    BY DEF StreamStep, SenderEnvironment, ServerReceives, RpcBreaks, OtherProducer, Grows,
           SenderKeeps, senderVars, sinkVars, ingestVars
<1>5. DirectStep => Goal
    <2> SUFFICES ASSUME DirectStep PROVE Goal
        OBVIOUS
    <2>1. Grows /\ session' \in {session, session + 1}
        <3>1. CASE DirectCreate
            BY <3>1 DEF DirectCreate, CreateSender, CreateSenderFails, Grows, senderVars
        <3>2. CASE DirectSend
            BY <3>2, SenderCalls DEF DirectSend
        <3>3. CASE DirectDelete
            BY <3>3, SenderCalls DEF DirectDelete
        <3>4. CASE DirectReturns
            BY <3>4, SenderCalls DEF DirectReturns, senderVars, Grows
        <3>. QED
            BY <3>1, <3>2, <3>3, <3>4 DEF DirectStep, DirectNext
    <2>. QED
        BY <2>1 DEF DirectStep, sinkVars, ingestVars
<1>6. SinkStep => Goal
    BY SinkAppMoves DEF SinkStep, ingestVars
<1>7. ManagerStep \/ ManagementServer \/ ReceiverStep \/ ConsumerStep \/ ConsumerEnvironment
          \/ ChunkerStep \/ SrcStep \/ PacketStep => Goal
    BY <1>1 DEF ManagerStep, ManagementServer, ReceiverStep, ConsumerStep, ConsumerEnvironment,
                ChunkerStep, SrcStep, PacketStep
<1>8. UNCHANGED vars => Goal
    BY <1>1 DEF vars
<1>. QED
    BY <1>2, <1>3, <1>4, <1>5, <1>6, <1>7, <1>8 DEF Next

LEMMA ShownOptions ==
    /\ \A p : \A name \in StringProperties : SenderOptions(p)[name] = p[name]
    /\ \A c : SenderOptions(Finalize(ConnFlags(c))) = ConnFlags(c)
    /\ \A c : DOMAIN Finalize(c) = ConnFields
    /\ DOMAIN NoConn = ConnFields
    /\ DOMAIN [NoConn EXCEPT !.ssl_domain_name = "given"] = ConnFields
<1>1. \A p : \A name \in StringProperties : SenderOptions(p)[name] = p[name]
    BY DEF SenderOptions, StringProperties
<1>2. \A c : SenderOptions(Finalize(ConnFlags(c))) = ConnFlags(c)
    BY DEF SenderOptions, Finalize, ConnFlags
<1>3. \A c : DOMAIN Finalize(c) = ConnFields
    BY DEF Finalize, ConnFields, StringProperties
<1>4. DOMAIN NoConn = ConnFields
    BY DEF NoConn, ConnFields, StringProperties
<1>5. DOMAIN [NoConn EXCEPT !.ssl_domain_name = "given"] = ConnFields
    BY <1>4
<1>. QED
    BY <1>1, <1>2, <1>3, <1>4, <1>5

LEMMA SenderInitial == Init => SenderInv
<1> SUFFICES ASSUME Init PROVE SenderInv
    OBVIOUS
<1>1. /\ typed \in Scenarios /\ session = 0 /\ ingAt = "idle" /\ sinkAt = "none"
      /\ ais_sender = "NULL" /\ sinkProps = NoConn
    BY DEF Init, SenderInit, IngestInit, SinkInit
<1>. QED
    BY <1>1, ShownOptions DEF SenderInv, SinkConnectedAsShown, SenderTurns, IngestAsked

LEMMA SenderKept == SenderInv /\ [Next]_vars => SenderInv'
<1> SUFFICES ASSUME SenderInv, [Next]_vars PROVE SenderInv'
    OBVIOUS
<1>0. /\ typed \in Scenarios /\ typed' = typed /\ session \in Nat /\ DOMAIN sinkProps = ConnFields
      /\ SinkConnectedAsShown /\ SenderTurns /\ IngestAsked
    BY SenderSteps DEF SenderInv
<1>1. \A c, d \in typed.commands : c.cmd = "ingest" /\ d.cmd = "ingest" => c = d
    <2>1. \A group \in {ManagerCommands, {"ingest"}, ConsumerCommands, {"chunk"}} :
              \A c, d \in typed.commands : c.cmd \in group /\ d.cmd \in group => c = d
        BY <1>0, ScenariosAssumption
    <2>. QED
        BY <2>1
<1>2. \A c \in typed.commands :
          c.cmd = "ingest" => "direct" \notin typed.runs /\ "sink" \notin typed.runs
    BY <1>0, ScenariosAssumption
<1>3. "direct" \in typed.runs => "sink" \notin typed.runs
    BY <1>0, ScenariosAssumption
<1>4. CASE SenderKeeps
    BY <1>0, <1>4
       DEF SenderKeeps, SenderInv, SinkConnectedAsShown, SinkGetProperty, SenderTurns, IngestAsked
<1>5. CASE /\ UNCHANGED <<conn, session, sinkAt, sinkProps, ais_sender>>
           /\ ingAt = "idle" /\ ingAt' # "idle"
           /\ \E c \in typed.commands : c.cmd = "ingest" /\ ing' = IngestFlags(c)
    <2>1. PICK d \in typed.commands : d.cmd = "ingest" /\ ing' = IngestFlags(d)
        BY <1>5
    <2>2. sinkAt = "none" /\ session = 0 /\ "direct" \notin typed.runs
        BY <1>0, <1>2, <1>5, <2>1 DEF IngestAsked
    <2>3. IngestAsked'
        BY <1>0, <1>1, <1>5, <2>1, <2>2 DEF IngestAsked
    <2>. QED
        BY <1>0, <1>5, <2>2, <2>3 DEF SenderInv, SinkConnectedAsShown, SinkGetProperty, SenderTurns
<1>6. CASE IngestNext \/ IngestKilled
    <2>0. ing' = ing /\ (ingAt = "idle" <=> ingAt' = "idle")
        BY <1>6, IngestMoves
    <2>1. CASE SinkRests
        BY <1>0, <2>0, <2>1 DEF SinkRests, SenderInv, SinkConnectedAsShown, SinkGetProperty,
                                SenderTurns, IngestAsked
    <2>2. CASE ingAt # "idle" /\ SinkFresh(Finalize(ing.conn))
        <3>1. "direct" \notin typed.runs
            BY <1>0, <2>2 DEF SenderTurns
        <3>2. IngestAsked'
            BY <1>0, <2>0, <2>2 DEF SinkFresh, IngestAsked
        <3>. QED
            BY <1>0, <2>2, <3>1, <3>2, ShownOptions
               DEF SinkFresh, SenderInv, SinkConnectedAsShown, SenderTurns
    <2>3. CASE SinkConnects
        <3>1. "direct" \notin typed.runs
            BY <1>0, <2>3 DEF SenderTurns, SinkConnects
        <3>2. IngestAsked'
            <4> SUFFICES ASSUME NEW c \in typed.commands, c.cmd = "ingest"
                         PROVE  /\ ingAt' = "idle" => sinkAt' = "none" /\ session' = 0
                                /\ ingAt' # "idle" => ing' = IngestFlags(c)
                                /\ sinkAt' # "none" => sinkProps' = Finalize(ing'.conn)
                                /\ session' > 0 => conn' = ConnFlags(c)
                BY <1>0 DEF IngestAsked
            <4>1. ingAt # "idle" /\ ing = IngestFlags(c) /\ sinkProps = Finalize(ing.conn)
                BY <1>0, <2>3 DEF IngestAsked, SinkConnects
            <4>2. ing.conn = ConnFlags(c)
                BY <4>1 DEF IngestFlags
            <4>3. conn' = ConnFlags(c)
                BY <4>1, <4>2, <2>3, ShownOptions DEF SinkConnects
            <4>. QED
                BY <2>0, <2>3, <4>1, <4>3 DEF SinkConnects
        <3>3. SinkConnectedAsShown'
            BY <2>3, ShownOptions DEF SinkConnects, SinkConnectedAsShown, SinkGetProperty
        <3>. QED
            BY <1>0, <2>3, <3>1, <3>2, <3>3 DEF SinkConnects, SenderInv, SenderTurns
    <2>. QED
        BY <1>6, <2>1, <2>2, <2>3, IngestMoves
<1>7. CASE /\ "direct" \in typed.runs /\ UNCHANGED <<sinkAt, sinkProps, ais_sender, ingAt, ing>>
           /\ session' \in {session, session + 1}
    <2>1. ais_sender = "NULL" /\ \A c \in typed.commands : c.cmd # "ingest"
        BY <1>0, <1>2, <1>7 DEF SenderTurns
    <2>. QED
        BY <1>0, <1>7, <2>1 DEF SenderInv, SinkConnectedAsShown, SenderTurns, IngestAsked
<1>8. CASE "sink" \in typed.runs /\ AppNext /\ UNCHANGED <<ingAt, ing>>
    <2>1. "direct" \notin typed.runs /\ \A c \in typed.commands : c.cmd # "ingest"
        BY <1>2, <1>3, <1>8
    <2>2. SenderTurns' /\ IngestAsked'
        BY <1>0, <2>1 DEF SenderTurns, IngestAsked
    <2>3. /\ session' \in Nat /\ DOMAIN sinkProps' = ConnFields
          /\ SinkConnectedAsShown'
        <3>1. CASE SinkRests
            BY <1>0, <3>1 DEF SinkRests, SinkConnectedAsShown, SinkGetProperty
        <3>2. CASE SinkFresh([NoConn EXCEPT !.ssl_domain_name = "given"])
            BY <1>0, <3>2, ShownOptions DEF SinkFresh, SinkConnectedAsShown
        <3>3. CASE SinkConnects
            BY <1>0, <3>3, ShownOptions DEF SinkConnects, SinkConnectedAsShown, SinkGetProperty
        <3>4. CASE SinkIsSet
            <4>1. CASE UNCHANGED sinkProps
                BY <1>0, <3>4, <4>1 DEF SinkIsSet, SinkConnectedAsShown, SinkGetProperty
            <4>2. CASE \E name, value :
                           /\ name \in ConnFields
                           /\ name \in StringProperties => ais_sender = "NULL"
                           /\ sinkProps' = [sinkProps EXCEPT ![name] = value]
                <5>1. PICK name, value :
                           /\ name \in ConnFields
                           /\ name \in StringProperties => ais_sender = "NULL"
                           /\ sinkProps' = [sinkProps EXCEPT ![name] = value]
                    BY <4>2
                <5>2. /\ DOMAIN sinkProps' = ConnFields
                      /\ \A other \in ConnFields \ {name} : sinkProps'[other] = sinkProps[other]
                    BY <1>0, <5>1
                <5>3. StringProperties \subseteq ConnFields
                    BY DEF ConnFields
                <5>4. SinkConnectedAsShown'
                    BY <1>0, <3>4, <5>1, <5>2, <5>3
                       DEF SinkIsSet, SinkConnectedAsShown, SinkGetProperty
                <5>. QED
                    BY <1>0, <3>4, <5>2, <5>4 DEF SinkIsSet
            <4>. QED
                BY <3>4, <4>1, <4>2 DEF SinkIsSet
        <3>. QED
            BY <1>8, <3>1, <3>2, <3>3, <3>4, SinkAppMoves
    <2>. QED
        BY <1>0, <2>2, <2>3 DEF SenderInv
<1>. QED
    BY <1>4, <1>5, <1>6, <1>7, <1>8, SenderSteps

-----------------------------------------------------------------------------
(* What the steps of a receiver and of its owners do.                       *)

ReadingStates == {"started", "creating"}
ReceiverFields == {"state", "conn", "admitted", "seek", "start", "next"}

ReceiverKeeps == UNCHANGED <<receiver, rqueue, shown, srcAt, srcProps, ais_receiver, conAt, con>>

\* Nothing is received; the receiver may be deleted.
ReceiverRests ==
    UNCHANGED <<receiver, rqueue, shown>> \/ (DeleteReceiver /\ UNCHANGED shown)

ConsumerTyped ==
    /\ UNCHANGED <<receiver, rqueue, shown, srcAt, srcProps, ais_receiver>>
    /\ conAt = "idle" /\ conAt' = "start"
    /\ \E c \in typed.commands : c.cmd \in ConsumerCommands /\ con' = ConsumerFlags(c)

ConsumerLeaves ==
    /\ ReceiverRests /\ UNCHANGED <<con, srcProps, ais_receiver>>
    /\ conAt # "idle" /\ conAt' \in {"launch", "exited"} /\ srcAt' \in {srcAt, "none"}

SrcMoves ==
    /\ ReceiverRests /\ UNCHANGED <<con, conAt, srcProps>>
    /\ srcAt # "none" /\ (srcAt' \in ReadingStates => srcAt \in ReadingStates)
    /\ ais_receiver' \in {ais_receiver, "NULL", "dangling"}

SrcFresh ==
    /\ UNCHANGED <<receiver, rqueue, shown, con, conAt>>
    /\ srcAt' = "null" /\ ais_receiver' = "NULL"
    /\ \/ /\ "src" \in typed.runs
          /\ srcProps' = [conn |-> [NoConn EXCEPT !.ssl_domain_name = "given"],
                          timeout_in_sec |-> -1]
       \/ conAt = "launch" /\ srcProps' = FinalizeSrc(con)

SrcIsSet ==
    /\ UNCHANGED <<receiver, rqueue, shown, con, conAt, srcAt, ais_receiver>>
    /\ "src" \in typed.runs
    /\ \/ UNCHANGED srcProps
       \/ \E value : srcProps' = [srcProps EXCEPT !.timeout_in_sec = value]
       \/ \E name, value :
              /\ name \in ConnFields
              /\ name \in StringProperties => ais_receiver = "NULL"
              /\ srcProps' = [srcProps EXCEPT !.conn[name] = value]

SrcConnects ==
    /\ CreateReceiver(SenderOptions(srcProps.conn), "any")
    /\ srcAt = "null" /\ srcAt' = "started" /\ ais_receiver' = "live"
    /\ UNCHANGED <<con, conAt, srcProps>>

QueueConnects ==
    /\ CreateReceiver(con.conn, Seek(con))
    /\ conAt = "start" /\ conAt' = "pop"
    /\ UNCHANGED <<con, srcAt, srcProps, ais_receiver>>

SrcCreates == (\E flow : CreateReturns(flow)) /\ UNCHANGED <<con, conAt>>
QueuePops  == Pop /\ UNCHANGED <<srcAt, srcProps, ais_receiver>>
Receives   == ReceiverNext /\ UNCHANGED <<con, conAt>>

ReceiverMoves ==
    \/ ConsumerTyped \/ ConsumerLeaves \/ SrcMoves \/ SrcFresh \/ SrcIsSet
    \/ SrcConnects \/ QueueConnects \/ SrcCreates \/ QueuePops \/ Receives

LEMMA SrcStarts == SrcStart /\ UNCHANGED <<con, conAt>> => SrcConnects
BY DEF SrcStart, NewReceiver, SrcConnects

LEMMA PlaybackMoves ==
    PlaybackNext \/ StreamingThread \/ PlaybackEnvironment \/ ConsumerAborts
        => ReceiverKeeps \/ ReceiverMoves
<1>1. ASSUME NEW result, PlaybackExits(result), conAt # "idle" PROVE ConsumerLeaves
    BY <1>1 DEF PlaybackExits, ConsumerExits, SrcGone, ConsumerLeaves, ReceiverRests
<1>2. PlaybackBegins => ConsumerLeaves
    BY <1>1 DEF PlaybackBegins, ConsumerLeaves, ReceiverRests, receiverVars, srcVars
<1>3. PlaybackLaunchFails \/ PlaybackPlayFails => ConsumerLeaves
    BY <1>1 DEF PlaybackLaunchFails, PlaybackPlayFails
<1>4. PlaybackEnds => ConsumerLeaves
    BY <1>1 DEF PlaybackEnds
<1>5. PlaybackBuilds => SrcFresh
    BY DEF PlaybackBuilds, SrcFresh, consumerVars, receiverVars
<1>6. PlaybackStarts => SrcConnects
    BY SrcStarts DEF PlaybackStarts, consumerVars
<1>7. PlaybackPlays \/ PlaybackPops \/ PlaybackEnvironment => ReceiverKeeps
    BY DEF PlaybackPlays, PlaybackPops, PlaybackEnvironment, DownstreamFails, PlaybackStopper,
           ReceiverKeeps, consumerVars, receiverVars, srcVars
<1>8. PlaybackStops => SrcMoves
    BY DEF PlaybackStops, SrcStop, SrcMoves, ReceiverRests, ReadingStates, consumerVars
<1>9. PlaybackReturns => SrcMoves
    BY DEF PlaybackReturns, SrcGone, SrcMoves, ReceiverRests, ReadingStates, consumerVars,
           receiverVars
<1>10. StreamingThread => SrcMoves \/ SrcCreates
    <2> SUFFICES ASSUME StreamingThread PROVE SrcMoves \/ SrcCreates
        OBVIOUS
    <2>1. UNCHANGED <<con, conAt>>
        BY DEF StreamingThread, consumerVars
    <2>2. CreateBegins => SrcMoves
        BY <2>1 DEF CreateBegins, SrcMoves, ReceiverRests, ReadingStates, receiverVars
    <2>3. (/\ srcAt = "started" /\ srcAt' = "ended"
           /\ UNCHANGED <<srcProps, ais_receiver, receiverVars, shown>>) => SrcMoves
        BY <2>1 DEF SrcMoves, ReceiverRests, ReadingStates, receiverVars
    <2>4. (\E flow : CreateReturns(flow)) => SrcCreates
        BY <2>1 DEF SrcCreates
    <2>. QED
        BY <2>2, <2>3, <2>4 DEF StreamingThread
<1>11. ConsumerAborts => ConsumerLeaves
    BY DEF ConsumerAborts, FinishAgain, ConsumerExits, SrcGone, ConsumerLeaves, ReceiverRests
<1>. QED
    BY <1>2, <1>3, <1>4, <1>5, <1>6, <1>7, <1>8, <1>9, <1>10, <1>11
       DEF PlaybackNext, ReceiverMoves

LEMMA QueueMoves == QueueNext => ReceiverMoves
<1> SUFFICES ASSUME QueueNext PROVE ReceiverMoves
    OBVIOUS
<1>1. UNCHANGED <<srcAt, srcProps, ais_receiver>>
    BY DEF QueueNext, srcVars
<1>2. CASE QueueBegins
    <2>1. conAt = "start"
        BY <1>2 DEF QueueBegins
    <2>2. CASE UNCHANGED <<receiver, rqueue, shown, con>> /\ conAt' = "exited"
        BY <1>1, <2>1, <2>2 DEF ConsumerLeaves, ReceiverRests, ReceiverMoves
    <2>3. CASE CreateReceiver(con.conn, Seek(con)) /\ conAt' = "pop" /\ UNCHANGED con
        BY <1>1, <2>1, <2>3 DEF QueueConnects, ReceiverMoves
    <2>. QED
        BY <1>2, <2>2, <2>3 DEF QueueBegins, ConsumerExits, CreateReceiverFails, receiverVars
<1>3. CASE Pop
    BY <1>1, <1>3 DEF QueuePops, ReceiverMoves
<1>. QED
    BY <1>2, <1>3 DEF QueueNext

LEMMA SrcAppMoves ==
    "src" \in typed.runs /\ SrcAppNext /\ UNCHANGED <<con, conAt>> => ReceiverKeeps \/ ReceiverMoves
<1> SUFFICES ASSUME "src" \in typed.runs, SrcAppNext, UNCHANGED <<con, conAt>>
             PROVE  ReceiverKeeps \/ ReceiverMoves
    OBVIOUS
<1>1. SrcCreated /\ UNCHANGED <<receiverVars, shown>> => SrcFresh
    BY DEF SrcCreated, SrcFresh, receiverVars
<1>2. ASSUME NEW name \in ConnFields, NEW value, SrcAppSets(name, value) PROVE SrcIsSet
    <2>1. UNCHANGED <<receiver, rqueue, shown, con, conAt, srcAt, ais_receiver>>
        BY <1>2 DEF SrcAppSets, SrcSetProperty, receiverVars
    <2>2. CASE name = "target_address"
        <3>1. srcProps' = SrcSetTargetAddress(value)
            BY <1>2, <2>2 DEF SrcAppSets, SrcSetProperty
        <3>2. \/ SrcSetTargetAddress(value) = srcProps
              \/ /\ ais_receiver = "NULL"
                 /\ SrcSetTargetAddress(value) = [srcProps EXCEPT !.conn[name] = value]
            BY <2>2 DEF SrcSetTargetAddress, SrcAlreadyOpen
        <3>. QED
            BY <2>1, <3>1, <3>2 DEF SrcIsSet
    <2>3. CASE name \in StringProperties \ {"target_address"}
        <3>1. srcProps' = SrcSetString(name, value)
            BY <1>2, <2>3 DEF SrcAppSets, SrcSetProperty, StringSrcProperties, StringProperties
        <3>2. \/ SrcSetString(name, value) = srcProps
              \/ /\ ais_receiver = "NULL"
                 /\ \E v : SrcSetString(name, value) = [srcProps EXCEPT !.conn[name] = v]
            BY DEF SrcSetString, SrcAlreadyOpen
        <3>. QED
            BY <2>1, <3>1, <3>2 DEF SrcIsSet
    <2>4. CASE name \notin StringProperties
        <3>1. srcProps' = [srcProps EXCEPT !.conn[name] = value]
            BY <1>2, <2>4
               DEF SrcAppSets, SrcSetProperty, StringSrcProperties, StringProperties, ConnFields
        <3>. QED
            BY <2>1, <2>4, <3>1 DEF SrcIsSet
    <2>. QED
        BY <2>2, <2>3, <2>4
<1>3. ASSUME NEW value, SrcAppSets("timeout_in_sec", value) PROVE SrcIsSet
    BY <1>3 DEF SrcAppSets, SrcSetProperty, StringSrcProperties, SrcIsSet, receiverVars
<1>4. SrcStart => SrcConnects
    BY SrcStarts
<1>5. SrcStartFails => SrcMoves
    BY DEF SrcStartFails, NewReceiver, CreateReceiverFails, CreateReceiver, SrcMoves, ReceiverRests,
           ReadingStates, receiverVars
<1>6. CreateBegins => SrcMoves
    BY DEF CreateBegins, SrcMoves, ReceiverRests, ReadingStates, receiverVars
<1>7. SrcStop => SrcMoves
    BY DEF SrcStop, SrcMoves, ReceiverRests, ReadingStates
<1>8. (\E flow : CreateReturns(flow)) => SrcCreates
    BY DEF SrcCreates
<1>9. {"target_address", "ssl_root_cert_path", "use_insecure_channel"} \subseteq ConnFields
    BY DEF ConnFields, StringProperties
<1>10. srcAt # "none" /\ FinishAgain => SrcMoves
    BY DEF FinishAgain, SrcGone, SrcMoves, ReceiverRests, ReadingStates
<1>. QED
    BY <1>1, <1>2, <1>3, <1>4, <1>5, <1>6, <1>7, <1>8, <1>9, <1>10 DEF SrcAppNext, ReceiverMoves

LEMMA ReceiverSteps ==
    [Next]_vars =>
        /\ typed' = typed
        /\ \/ ReceiverKeeps /\ Grows
           \/ ReceiverMoves /\ UNCHANGED log
<1> DEFINE Goal ==
        /\ typed' = typed
        /\ \/ ReceiverKeeps /\ Grows
           \/ ReceiverMoves /\ UNCHANGED log
<1> SUFFICES ASSUME [Next]_vars PROVE Goal
    OBVIOUS
<1>0. typed' = typed /\ Grows
    BY SenderSteps
<1>1. ASSUME UNCHANGED consumeVars PROVE Goal
    BY <1>0, <1>1 DEF consumeVars, receiverVars, srcVars, consumerVars, ReceiverKeeps
<1>2. CASE Cli
    <2>1. PICK c \in typed.commands : CliExec(c)
        BY <1>2 DEF Cli
    <2>2. CASE /\ c.cmd \in ConsumerCommands /\ conAt = "idle"
               /\ conAt' = "start" /\ con' = ConsumerFlags(c)
               /\ UNCHANGED <<produceVars, receiverVars, shown, srcVars>>
        BY <1>0, <2>2 DEF ConsumerTyped, ReceiverMoves, receiverVars, srcVars, produceVars
    <2>. QED
        BY <1>1, <2>1, <2>2 DEF CliExec
<1>3. CASE ReceiverStep
    BY <1>0, <1>3 DEF ReceiverStep, Receives, ReceiverMoves, consumerVars, produceVars
<1>4. CASE ConsumerStep \/ ConsumerEnvironment
    <2>1. UNCHANGED log
        BY <1>4 DEF ConsumerStep, ConsumerEnvironment, produceVars
    <2>. QED
        BY <1>0, <1>4, <2>1, PlaybackMoves, QueueMoves DEF ConsumerStep, ConsumerEnvironment
<1>5. CASE SrcStep
    <2>1. UNCHANGED <<log, con, conAt>>
        BY <1>5 DEF SrcStep, produceVars, consumerVars
    <2>. QED
        BY <1>0, <1>5, <2>1, SrcAppMoves DEF SrcStep
<1>6. CASE ManagerStep \/ ManagementServer \/ IngesterStep \/ Kill \/ StreamStep \/ ChunkerStep
              \/ DirectStep \/ SinkStep \/ PacketStep
    BY <1>1, <1>6 DEF ManagerStep, ManagementServer, IngesterStep, Kill, StreamStep, ChunkerStep,
                      DirectStep, SinkStep, PacketStep
<1>7. CASE UNCHANGED vars
    BY <1>1, <1>7 DEF vars
<1>. QED
    BY <1>2, <1>3, <1>4, <1>5, <1>6, <1>7 DEF Next

\* An element that is connected keeps its receiver; what a receiver is connected
\* with was typed.  Who receives is settled by the scenario: printer_app and
\* replay_app have no element.
ReceiverTurns ==
    /\ "src" \in typed.runs => conAt = "idle"
    /\ "src" \notin typed.runs /\ conAt \in {"idle", "start", "pop"} =>
           srcAt = "none" /\ ais_receiver = "NULL"

ConsumerAsked ==
    \A c \in typed.commands : c.cmd \in ConsumerCommands =>
        /\ conAt = "idle" => receiver = NoReceiver
        /\ conAt # "idle" => con = ConsumerFlags(c)
        /\ srcAt # "none" => srcProps = FinalizeSrc(con)
        /\ receiver # NoReceiver => receiver.conn = ConnFlags(c)

Fields ==
    /\ DOMAIN receiver = ReceiverFields /\ receiver.seek \in {"beginning", "end", "any"}
    /\ DOMAIN srcProps = {"conn", "timeout_in_sec"} /\ DOMAIN srcProps.conn = ConnFields

ReceiverInv ==
    /\ typed \in Scenarios /\ Fields
    /\ ReceiverTurns /\ SrcConnectedAsShown /\ ConsumerAsked

LEMMA ReceiverCreated ==
    ASSUME NEW c, NEW seek \in {"beginning", "end", "any"}, CreateReceiver(c, seek)
    PROVE  /\ DOMAIN receiver' = ReceiverFields /\ receiver'.conn = c /\ receiver'.seek = seek
           /\ receiver'.state = "open" /\ receiver'.start = 0 /\ receiver'.next = 0
           /\ rqueue' = <<>> /\ shown' = <<>>
<1>1. PICK admits \in MakeClientContext(c) :
          receiver' = [NoReceiver EXCEPT !.state = "open", !.conn = c,
                                         !.admitted = admits, !.seek = seek]
    BY DEF CreateReceiver
<1>2. NoReceiver = [state |-> "none", conn |-> NoConn, admitted |-> FALSE,
                    seek |-> "any", start |-> 0, next |-> 0]
    BY DEF NoReceiver
<1>3. receiver' = [state |-> "open", conn |-> c, admitted |-> admits,
                   seek |-> seek, start |-> 0, next |-> 0]
    BY <1>1, <1>2
<1>. QED
    BY <1>3 DEF CreateReceiver, ReceiverFields

LEMMA ReceiverDeleted ==
    ASSUME DOMAIN receiver = ReceiverFields, DeleteReceiver
    PROVE  /\ DOMAIN receiver' = ReceiverFields /\ receiver'.conn = receiver.conn
           /\ receiver'.seek = receiver.seek
           /\ receiver'.state = "none" /\ receiver'.start = receiver.start
           /\ receiver'.next = receiver.next
           /\ rqueue' = <<>> /\ (receiver = NoReceiver => receiver' = NoReceiver)
<1>1. receiver' = [receiver EXCEPT !.state = "none"] /\ rqueue' = <<>>
    BY DEF DeleteReceiver
<1>2. ASSUME receiver = NoReceiver PROVE receiver' = NoReceiver
    BY <1>1, <1>2 DEF NoReceiver
<1>. QED
    BY <1>1, <1>2 DEF ReceiverFields

\* The worker and the server leave alone what the receiver was made with.
LEMMA ReceiverServed ==
    ASSUME DOMAIN receiver = ReceiverFields, Receives
    PROVE  /\ DOMAIN receiver' = ReceiverFields /\ receiver'.conn = receiver.conn
           /\ receiver'.seek = receiver.seek /\ receiver.state = "open"
           /\ UNCHANGED <<shown, srcAt, srcProps, ais_receiver, con, conAt>>
<1>1. \/ \E i : receiver' = [receiver EXCEPT !.start = i, !.next = i]
      \/ receiver' = [receiver EXCEPT !.next = @ + 1]
      \/ \E s : receiver' = [receiver EXCEPT !.state = s]
    BY DEF Receives, ReceiverNext, ServerSeeks, WorkerPushes, WorkerEmplacesEos, WorkerPushesEmpty
<1>2. /\ DOMAIN receiver' = ReceiverFields /\ receiver'.conn = receiver.conn
      /\ receiver'.seek = receiver.seek
    BY <1>1 DEF ReceiverFields
<1>. QED
    BY <1>2 DEF Receives, ReceiverNext, ServerSeeks, WorkerPushes, WorkerEmplacesEos,
                WorkerPushesEmpty, srcVars

LEMMA ConsumerOptionsPassed ==
    /\ \A c : c.cmd \in ConsumerCommands => ConsumerFlags(c).conn = ConnFlags(c)
    /\ \A c, o : o.conn = ConnFlags(c) => SenderOptions(FinalizeSrc(o).conn) = ConnFlags(c)
    /\ \A o : /\ DOMAIN FinalizeSrc(o) = {"conn", "timeout_in_sec"}
              /\ DOMAIN FinalizeSrc(o).conn = ConnFields
    /\ Seek(con) \in {"beginning", "end", "any"}
<1>1. ASSUME NEW c, c.cmd \in ConsumerCommands PROVE ConsumerFlags(c).conn = ConnFlags(c)
    <2>1. PlaybackFlags(c).conn = ConnFlags(c)
        BY DEF PlaybackFlags, DefaultConsumer
    <2>2. PrinterFlags(c).conn = ConnFlags(c)
        BY DEF PrinterFlags, DefaultConsumer
    <2>3. ReplayFlags(c).conn = ConnFlags(c)
        BY DEF ReplayFlags, DefaultConsumer
    <2>. QED
        BY <1>1, <2>1, <2>2, <2>3 DEF ConsumerFlags, ConsumerCommands
<1>2. ASSUME NEW c, NEW o, o.conn = ConnFlags(c)
      PROVE  SenderOptions(FinalizeSrc(o).conn) = ConnFlags(c)
    BY <1>2 DEF SenderOptions, FinalizeSrc, ConnFlags
<1>3. \A o : /\ DOMAIN FinalizeSrc(o) = {"conn", "timeout_in_sec"}
             /\ DOMAIN FinalizeSrc(o).conn = ConnFields
    BY DEF FinalizeSrc, ConnFields, StringProperties
<1>4. Seek(con) \in {"beginning", "end", "any"}
    BY DEF Seek
<1>. QED
    BY <1>1, <1>2, <1>3, <1>4

LEMMA ReceiverInitial == Init => ReceiverInv
<1> SUFFICES ASSUME Init PROVE ReceiverInv
    OBVIOUS
<1>1. /\ typed \in Scenarios /\ conAt = "idle" /\ receiver = NoReceiver
      /\ srcAt = "none" /\ ais_receiver = "NULL"
      /\ srcProps = [conn |-> NoConn, timeout_in_sec |-> -1]
    BY DEF Init, ConsumerInit, SrcInit
<1>2. Fields
    BY <1>1, ShownOptions DEF Fields, NoReceiver, ReceiverFields
<1>. QED
    BY <1>1, <1>2 DEF ReceiverInv, ReceiverTurns, SrcConnectedAsShown, ConsumerAsked

LEMMA ReceiverKept == ReceiverInv /\ [Next]_vars => ReceiverInv'
<1> SUFFICES ASSUME ReceiverInv, [Next]_vars PROVE ReceiverInv'
    OBVIOUS
<1>0. /\ typed \in Scenarios /\ typed' = typed /\ Fields
      /\ ReceiverTurns /\ SrcConnectedAsShown /\ ConsumerAsked
    BY ReceiverSteps DEF ReceiverInv
<1>1. \A c, d \in typed.commands :
          c.cmd \in ConsumerCommands /\ d.cmd \in ConsumerCommands => c = d
    BY <1>0, ScenariosAssumption
<1>2. \A c \in typed.commands : c.cmd \in ConsumerCommands => "src" \notin typed.runs
    BY <1>0, ScenariosAssumption
<1>3. DOMAIN receiver = ReceiverFields /\ DOMAIN srcProps.conn = ConnFields
    BY <1>0 DEF Fields
<1>4. ASSUME ReceiverRests
      PROVE  /\ DOMAIN receiver' = ReceiverFields /\ receiver'.conn = receiver.conn
             /\ receiver'.seek = receiver.seek /\ (receiver = NoReceiver => receiver' = NoReceiver)
    BY <1>3, <1>4, ReceiverDeleted DEF ReceiverRests
<1>5. CASE ReceiverKeeps
    BY <1>0, <1>5 DEF ReceiverKeeps, ReceiverInv, Fields, ReceiverTurns, SrcConnectedAsShown,
                      SrcGetProperty, ConsumerAsked
<1>6. CASE ConsumerTyped
    <2>1. PICK d \in typed.commands : d.cmd \in ConsumerCommands /\ con' = ConsumerFlags(d)
        BY <1>6 DEF ConsumerTyped
    <2>2. /\ "src" \notin typed.runs /\ srcAt = "none" /\ receiver = NoReceiver
          /\ ais_receiver = "NULL"
        BY <1>0, <1>2, <1>6, <2>1 DEF ConsumerTyped, ReceiverTurns, ConsumerAsked
    <2>3. ConsumerAsked'
        BY <1>0, <1>1, <1>6, <2>1, <2>2 DEF ConsumerTyped, ConsumerAsked
    <2>. QED
        BY <1>0, <1>6, <2>2, <2>3
           DEF ConsumerTyped, ReceiverInv, Fields, ReceiverTurns, SrcConnectedAsShown
<1>7. CASE ConsumerLeaves
    <2>1. "src" \notin typed.runs /\ conAt' \notin {"idle", "start", "pop"}
        BY <1>0, <1>7 DEF ConsumerLeaves, ReceiverTurns
    <2>2. ConsumerAsked'
        BY <1>0, <1>4, <1>7, <2>1 DEF ConsumerLeaves, ConsumerAsked
    <2>. QED
        BY <1>0, <1>4, <1>7, <2>1, <2>2
           DEF ConsumerLeaves, ReceiverInv, Fields, ReceiverTurns, SrcConnectedAsShown,
               SrcGetProperty
<1>8. CASE SrcMoves
    <2>1. "src" \notin typed.runs => conAt \notin {"idle", "start", "pop"}
        BY <1>0, <1>8 DEF SrcMoves, ReceiverTurns
    <2>2. ConsumerAsked'
        BY <1>0, <1>2, <1>4, <1>8, <2>1 DEF SrcMoves, ConsumerAsked
    <2>3. SrcConnectedAsShown'
        BY <1>0, <1>4, <1>8 DEF SrcMoves, SrcConnectedAsShown, SrcGetProperty
    <2>. QED
        BY <1>0, <1>4, <1>8, <2>1, <2>2, <2>3 DEF SrcMoves, ReceiverInv, Fields, ReceiverTurns
<1>9. CASE SrcFresh
    <2>1. Fields'
        <3>1. CASE srcProps' = FinalizeSrc(con)
            BY <1>0, <1>9, <3>1, ConsumerOptionsPassed DEF SrcFresh, Fields
        <3>2. CASE srcProps' = [conn |-> [NoConn EXCEPT !.ssl_domain_name = "given"],
                                timeout_in_sec |-> -1]
            <4>1. srcProps'.conn = [NoConn EXCEPT !.ssl_domain_name = "given"]
                  /\ DOMAIN srcProps' = {"conn", "timeout_in_sec"}
                BY <3>2
            <4>. QED
                BY <1>0, <1>9, <4>1, ShownOptions DEF SrcFresh, Fields
        <3>. QED
            BY <1>9, <3>1, <3>2 DEF SrcFresh
    <2>2. ConsumerAsked'
        BY <1>0, <1>2, <1>9 DEF SrcFresh, ConsumerAsked
    <2>. QED
        BY <1>0, <1>9, <2>1, <2>2 DEF SrcFresh, ReceiverInv, ReceiverTurns, SrcConnectedAsShown
<1>10. CASE SrcIsSet
    <2>1. ConsumerAsked'
        BY <1>0, <1>2, <1>10 DEF SrcIsSet, ConsumerAsked
    <2>2. Fields' /\ SrcConnectedAsShown'
        <3>1. CASE UNCHANGED srcProps
            BY <1>0, <1>10, <3>1 DEF SrcIsSet, Fields, SrcConnectedAsShown, SrcGetProperty
        <3>2. ASSUME NEW value, srcProps' = [srcProps EXCEPT !.timeout_in_sec = value]
              PROVE  Fields' /\ SrcConnectedAsShown'
            <4>1. srcProps'.conn = srcProps.conn /\ DOMAIN srcProps' = DOMAIN srcProps
                BY <1>0, <3>2 DEF Fields
            <4>2. "timeout_in_sec" \notin StringSrcProperties
                BY DEF StringSrcProperties
            <4>. QED
                BY <1>0, <1>10, <4>1, <4>2 DEF SrcIsSet, Fields, SrcConnectedAsShown, SrcGetProperty
        <3>3. ASSUME NEW name \in ConnFields, NEW value,
                     name \in StringProperties => ais_receiver = "NULL",
                     srcProps' = [srcProps EXCEPT !.conn[name] = value]
              PROVE  Fields' /\ SrcConnectedAsShown'
            <4>1. /\ DOMAIN srcProps' = DOMAIN srcProps
                  /\ srcProps'.conn = [srcProps.conn EXCEPT ![name] = value]
                BY <1>0, <3>3 DEF Fields
            <4>2. /\ DOMAIN srcProps'.conn = ConnFields
                  /\ \A other \in ConnFields \ {name} : srcProps'.conn[other] = srcProps.conn[other]
                BY <1>3, <4>1
            <4>3. StringSrcProperties = StringProperties /\ StringProperties \subseteq ConnFields
                  /\ "timeout_in_sec" \notin StringSrcProperties
                BY DEF StringSrcProperties, StringProperties, ConnFields
            <4>. QED
                BY <1>0, <1>10, <3>3, <4>1, <4>2, <4>3
                   DEF SrcIsSet, Fields, SrcConnectedAsShown, SrcGetProperty
        <3>. QED
            BY <1>10, <3>1, <3>2, <3>3 DEF SrcIsSet
    <2>. QED
        BY <1>0, <1>10, <2>1, <2>2 DEF SrcIsSet, ReceiverInv, ReceiverTurns
<1>11. CASE SrcConnects
    <2>1. /\ DOMAIN receiver' = ReceiverFields /\ receiver'.conn = SenderOptions(srcProps.conn)
          /\ receiver'.seek = "any"
        BY <1>11, ReceiverCreated DEF SrcConnects
    <2>2. "src" \notin typed.runs => conAt \notin {"idle", "start", "pop"}
        BY <1>0, <1>11 DEF SrcConnects, ReceiverTurns
    <2>3. ASSUME NEW c \in typed.commands, c.cmd \in ConsumerCommands
          PROVE  /\ con = ConsumerFlags(c) /\ srcProps = FinalizeSrc(con)
                 /\ receiver'.conn = ConnFlags(c)
        <3>1. con = ConsumerFlags(c) /\ srcProps = FinalizeSrc(con)
            BY <1>0, <1>2, <1>11, <2>2, <2>3 DEF SrcConnects, ConsumerAsked
        <3>2. con.conn = ConnFlags(c)
            BY <2>3, <3>1, ConsumerOptionsPassed
        <3>. QED
            BY <2>1, <3>1, <3>2, ConsumerOptionsPassed
    <2>4. ConsumerAsked'
        BY <1>0, <1>2, <1>11, <2>2, <2>3 DEF SrcConnects, ConsumerAsked
    <2>5. SrcConnectedAsShown'
        <3>1. StringSrcProperties = StringProperties /\ "timeout_in_sec" \notin StringSrcProperties
            BY DEF StringSrcProperties, StringProperties
        <3>. QED
            BY <1>11, <2>1, <3>1, ShownOptions DEF SrcConnects, SrcConnectedAsShown, SrcGetProperty
    <2>. QED
        BY <1>0, <1>11, <2>1, <2>2, <2>4, <2>5 DEF SrcConnects, ReceiverInv, Fields, ReceiverTurns
<1>12. CASE QueueConnects
    <2>1. /\ DOMAIN receiver' = ReceiverFields
          /\ receiver'.conn = con.conn /\ receiver'.seek = Seek(con)
        BY <1>12, ReceiverCreated, ConsumerOptionsPassed DEF QueueConnects
    <2>2. "src" \notin typed.runs /\ srcAt = "none" /\ ais_receiver = "NULL"
        BY <1>0, <1>12 DEF QueueConnects, ReceiverTurns
    <2>3. ConsumerAsked'
        BY <1>0, <1>12, <2>1, <2>2, ConsumerOptionsPassed DEF QueueConnects, ConsumerAsked
    <2>. QED
        BY <1>0, <1>12, <2>1, <2>2, <2>3, ConsumerOptionsPassed
           DEF QueueConnects, ReceiverInv, Fields, ReceiverTurns, SrcConnectedAsShown
<1>13. CASE SrcCreates
    <2>1. /\ srcAt = "creating" /\ srcAt' \in {"started", "ended"}
          /\ UNCHANGED <<receiver, con, conAt, srcProps, ais_receiver>>
        BY <1>13 DEF SrcCreates, CreateReturns, PopTimesOut, Pops, receiverVars
    <2>. QED
        BY <1>0, <2>1 DEF ReceiverInv, Fields, ReceiverTurns, SrcConnectedAsShown, SrcGetProperty,
                          ConsumerAsked
<1>14. CASE QueuePops
    <2>1. /\ conAt = "pop" /\ conAt' \in {"pop", "exited"}
          /\ UNCHANGED <<receiver, con, srcAt, srcProps, ais_receiver>>
        BY <1>14 DEF QueuePops, Pop, PopTimesOut, Pops, ConsumerExits, receiverVars, consumerVars
    <2>. QED
        BY <1>0, <2>1 DEF ReceiverInv, Fields, ReceiverTurns, SrcConnectedAsShown, SrcGetProperty,
                          ConsumerAsked
<1>15. CASE Receives
    <2>1. /\ DOMAIN receiver' = ReceiverFields /\ receiver'.conn = receiver.conn
          /\ receiver'.seek = receiver.seek /\ receiver.state = "open"
          /\ UNCHANGED <<srcAt, srcProps, ais_receiver, con, conAt>>
        BY <1>3, <1>15, ReceiverServed
    <2>2. receiver # NoReceiver
        BY <2>1 DEF NoReceiver
    <2>. QED
        BY <1>0, <2>1, <2>2 DEF ReceiverInv, Fields, ReceiverTurns, SrcConnectedAsShown,
                                SrcGetProperty, ConsumerAsked
<1>. QED
    BY <1>5, <1>6, <1>7, <1>8, <1>9, <1>10, <1>11, <1>12, <1>13, <1>14, <1>15, ReceiverSteps
       DEF ReceiverMoves

\* aissrc and aissink are connected as their properties show, for any commands
\* that are typed and however often the elements are stopped, set and started:
\* what set_property refuses while an element runs cannot be changed under a
\* live connection.
THEOREM ConnectedAsShownCorrect == Spec => []ConnectedAsShown
<1>1. Init => SenderInv /\ ReceiverInv
    BY SenderInitial, ReceiverInitial
<1>2. SenderInv /\ ReceiverInv /\ [Next]_vars => (SenderInv /\ ReceiverInv)'
    BY SenderKept, ReceiverKept
<1>3. SenderInv /\ ReceiverInv => ConnectedAsShown
    BY DEF SenderInv, ReceiverInv, ConnectedAsShown
<1>. QED
    BY <1>1, <1>2, <1>3, PTL DEF Spec

-----------------------------------------------------------------------------
(* What an owner shows is a run of the stream.                              *)

IsSequence(s) == \E S : s \in Seq(S)

LEMMA Sequence ==
    ASSUME NEW s, IsSequence(s)
    PROVE  Len(s) \in Nat /\ DOMAIN s = 1 .. Len(s) /\ (s = <<>> <=> Len(s) = 0)
<1>1. PICK S : s \in Seq(S)
    BY DEF IsSequence
<1>. QED
    BY <1>1, LenProperties, EmptySeq

LEMMA Appended ==
    ASSUME NEW s, NEW x, IsSequence(s)
    PROVE  /\ IsSequence(Append(s, x)) /\ Len(Append(s, x)) = Len(s) + 1
           /\ \A i \in 1 .. Len(s) : Append(s, x)[i] = s[i]
           /\ Append(s, x)[Len(s) + 1] = x
<1>1. PICK S : s \in Seq(S)
    BY DEF IsSequence
<1>2. s \in Seq(S \cup {x})
    BY <1>1
<1>3. x \in S \cup {x}
    OBVIOUS
<1>4. Append(s, x) \in Seq(S \cup {x})
    BY <1>2, <1>3, AppendProperties
<1>. QED
    BY <1>2, <1>3, <1>4, AppendProperties DEF IsSequence

LEMMA Beheaded ==
    ASSUME NEW s, IsSequence(s), s # <<>>
    PROVE  /\ Len(s) >= 1 /\ Head(s) = s[1]
           /\ IsSequence(Tail(s)) /\ Len(Tail(s)) = Len(s) - 1
           /\ \A i \in 1 .. Len(Tail(s)) : Tail(s)[i] = s[i + 1]
<1>1. PICK S : s \in Seq(S)
    BY DEF IsSequence
<1>2. Tail(s) \in Seq(S)
    BY <1>1, HeadTailProperties
<1>. QED
    BY <1>1, <1>2, HeadTailProperties, EmptySeq DEF IsSequence

LEMMA Fronted ==
    ASSUME NEW s, IsSequence(s), s # <<>>
    PROVE  /\ IsSequence(Front(s)) /\ Len(Front(s)) = Len(s) - 1
           /\ \A i \in 1 .. Len(Front(s)) : Front(s)[i] = s[i]
<1>1. PICK S : s \in Seq(S)
    BY DEF IsSequence
<1>2. Len(s) \in Nat \ {0} /\ \A i \in 1 .. Len(s) : s[i] \in S
    BY <1>1, LenProperties, EmptySeq, ElementOfSeq
<1>3. Front(s) = SubSeq(s, 1, Len(s) - 1)
    BY DEF Front
<1>4. /\ SubSeq(s, 1, Len(s) - 1) \in Seq(S) /\ Len(SubSeq(s, 1, Len(s) - 1)) = Len(s) - 1
      /\ \A i \in 1 .. Len(s) - 1 : SubSeq(s, 1, Len(s) - 1)[i] = s[i]
    <2> DEFINE n == Len(s) - 1
    <2>1. n \in Nat /\ n - 1 + 1 = n /\ 1 <= n + 1 /\ \A i \in 1 .. n : s[i] \in S /\ 1 + i - 1 = i
        BY <1>2
    <2> HIDE DEF n
    <2>2. CASE n = 0
        <3>1. SubSeq(s, 1, 0) = <<>>
            BY <1>1, SubSeqProperties
        <3>2. /\ SubSeq(s, 1, n) \in Seq(S) /\ Len(SubSeq(s, 1, n)) = n
              /\ \A i \in 1 .. n : SubSeq(s, 1, n)[i] = s[i]
            BY <2>2, <3>1, EmptySeq
        <3>. QED
            BY <3>2 DEF n
    <2>3. CASE n >= 1
        <3>1. /\ SubSeq(s, 1, n) \in Seq(S) /\ Len(SubSeq(s, 1, n)) = n - 1 + 1
              /\ \A i \in 1 .. n - 1 + 1 : SubSeq(s, 1, n)[i] = s[1 + i - 1]
            BY <2>1, <2>3, SubSeqProperties
        <3>. QED
            BY <2>1, <3>1 DEF n
    <2>. QED
        BY <2>1, <2>2, <2>3
<1>. QED
    BY <1>3, <1>4 DEF IsSequence

LEMMA LocalEosIsEos == IsEos(LocalEos)
<1> DEFINE v == Eos(<<-1, 0>>)
<1>1. v.type = "Eos" /\ v.about = About("EOS", "none", 0, 0) /\ v.bytes \in Seq(Int)
    BY DEF Eos, Value
<1>2. About("EOS", "none", 0, 0) \in Abouts /\ About("EOS", "none", 0, 0).name = "EOS"
    BY DEF About, Abouts
<1>3. v \in Values
    BY <1>1, <1>2 DEF Eos, Value, Values, CppTypes
<1>4. LocalEos = MakePacket(v, EmptyHeader)
    BY DEF LocalEos, Packet, MakeEosPacket
<1>5. PICK f \in SUBSET {"FrameHead", "KeyFrame"} :
          LocalEos =
              [header |-> [type_id |-> TypeId(v.type),
                           descriptor |-> PackedDescriptor(v, EmptyHeader.descriptor),
                           flags |-> f, addenda |-> EmptyHeader.addenda],
               payload |-> v.bytes]
    BY <1>3, <1>4, Packing, ValueTypes
<1>6. TypeId("Eos") = "CONTROL_SIGNAL"
    BY DEF TypeId, Messages
<1>7. PackedDescriptor(v, EmptyHeader.descriptor) = Descriptor("CONTROL_SIGNAL", v.about)
    BY <1>1, <1>6 DEF PackedDescriptor
<1> HIDE DEF v
<1>8. /\ LocalEos.header.type_id = "CONTROL_SIGNAL"
      /\ LocalEos.header.descriptor = Descriptor("CONTROL_SIGNAL", About("EOS", "none", 0, 0))
    BY <1>1, <1>5, <1>6, <1>7
<1>9. /\ Descriptor("CONTROL_SIGNAL", About("EOS", "none", 0, 0)).of = "CONTROL_SIGNAL"
      /\ Descriptor("CONTROL_SIGNAL", About("EOS", "none", 0, 0)).about.name = "EOS"
    BY DEF Descriptor, About
<1>. QED
    BY <1>8, <1>9 DEF IsEos, IsControlSignal

\* The stream has the i-th packet from where the server began.
StreamHas(i, p) ==
    /\ receiver.start >= 1 /\ receiver.start + i - 1 <= Len(log)
    /\ p = log[receiver.start + i - 1]

\* The owner will pop another packet.
Reading == conAt = "pop" \/ srcAt \in ReadingStates

\* The worker's own packets: one of them is the last it pushes.
WorkersOwn == {LocalEos, EmptyPacket}

ShownIsSent == \A i \in 1 .. Len(shown) : StreamHas(i, shown[i]) /\ ~IsEos(shown[i])

\* What is shown, what is in the queue and what the server delivers next follow
\* one another in the stream; only the last in the queue may be the worker's.
Continues ==
    /\ receiver.state = "open" \/ rqueue # <<>> => ShownIsSent
    /\ \A i \in 1 .. Len(rqueue) :
           \/ StreamHas(Len(shown) + i, rqueue[i])
           \/ i = Len(rqueue) /\ receiver.state # "open" /\ rqueue[i] \in WorkersOwn
    /\ receiver.state = "open" =>
           IF receiver.start = 0 THEN rqueue = <<>>
           ELSE receiver.next = receiver.start + Len(shown) + Len(rqueue)

ShownIsPassed ==
    \A i \in 1 .. Len(shown) :
        \/ StreamHas(i, shown[i]) /\ ~IsEos(shown[i])
        \/ i = Len(shown) /\ shown[i] = EmptyPacket

FlowTyped ==
    /\ IsSequence(log) /\ IsSequence(rqueue) /\ IsSequence(shown)
    /\ receiver.start \in Nat /\ receiver.next \in Nat
    /\ receiver.start = 0 => receiver.next = 0

Flow == FlowTyped /\ ShownIsPassed /\ (Reading => Continues)

LEMMA FlowInitial == Init => Flow
<1> SUFFICES ASSUME Init PROVE Flow
    OBVIOUS
<1>1. log = <<>> /\ rqueue = <<>> /\ shown = <<>> /\ receiver = NoReceiver
      /\ conAt = "idle" /\ srcAt = "none"
    BY DEF Init, SenderInit, ConsumerInit, SrcInit
<1>2. IsSequence(<<>>) /\ Len(<<>>) = 0
    BY EmptySeq DEF IsSequence
<1>3. receiver.start = 0 /\ receiver.next = 0
    BY <1>1 DEF NoReceiver
<1>. QED
    BY <1>1, <1>2, <1>3 DEF Flow, FlowTyped, ShownIsPassed, Reading, ReadingStates

\* The stream grows, and what it has it keeps.
LEMMA StreamGrows ==
    ASSUME IsSequence(log), Grows
    PROVE  /\ IsSequence(log') /\ Len(log') \in Nat /\ Len(log) \in Nat /\ Len(log') >= Len(log)
           /\ \A i \in 1 .. Len(log) : log'[i] = log[i]
<1>1. CASE UNCHANGED log
    BY <1>1, Sequence
<1>2. CASE \E p : log' = Append(log, p)
    BY <1>2, Appended, Sequence
<1>. QED
    BY <1>1, <1>2 DEF Grows

LEMMA FlowWhileOthersMove == Flow /\ ReceiverKeeps /\ Grows => Flow'
<1> SUFFICES ASSUME Flow, ReceiverKeeps, Grows PROVE Flow'
    OBVIOUS
<1>0. /\ FlowTyped /\ ShownIsPassed /\ (Reading => Continues)
      /\ UNCHANGED <<receiver, rqueue, shown, srcAt, conAt>>
    BY DEF Flow, ReceiverKeeps
<1>1. FlowTyped'
    BY <1>0, StreamGrows DEF FlowTyped
<1>2. ASSUME NEW i \in Nat \ {0}, NEW p, StreamHas(i, p) PROVE StreamHas(i, p)'
    BY <1>0, <1>2, StreamGrows DEF StreamHas, FlowTyped
<1>3. ShownIsPassed'
    <2>1. \A i \in 1 .. Len(shown) : i \in Nat \ {0}
        OBVIOUS
    <2>. QED
        BY <1>0, <1>2, <2>1 DEF ShownIsPassed
<1>4. ASSUME Reading' PROVE Continues'
    <2>1. Continues
        BY <1>0, <1>4 DEF Reading
    <2>2. \A i \in 1 .. Len(rqueue) : Len(shown) + i \in Nat \ {0}
        BY <1>0, Sequence DEF FlowTyped
    <2>3. \A i \in 1 .. Len(shown) : i \in Nat \ {0}
        OBVIOUS
    <2>4. ShownIsSent => ShownIsSent'
        BY <1>0, <1>2, <2>3 DEF ShownIsSent
    <2>. QED
        BY <1>0, <1>2, <2>1, <2>2, <2>4 DEF Continues
<1>. QED
    BY <1>1, <1>3, <1>4 DEF Flow

LEMMA FlowWhileNothingIsReceived ==
    ASSUME Flow, DOMAIN receiver = ReceiverFields, ReceiverRests, UNCHANGED log, Reading' => Reading
    PROVE  Flow'
<1>0. FlowTyped /\ ShownIsPassed /\ (Reading => Continues)
    BY DEF Flow
<1>1. CASE UNCHANGED <<receiver, rqueue, shown>>
    BY <1>0, <1>1 DEF Flow, FlowTyped, ShownIsPassed, ShownIsSent, Continues, StreamHas
<1>2. CASE DeleteReceiver /\ UNCHANGED shown
    <2>1. /\ receiver'.start = receiver.start /\ receiver'.next = receiver.next
          /\ receiver'.state = "none" /\ rqueue' = <<>>
        BY <1>2, ReceiverDeleted
    <2>2. IsSequence(<<>>) /\ Len(<<>>) = 0
        BY EmptySeq DEF IsSequence
    <2>3. FlowTyped' /\ ShownIsPassed'
        BY <1>0, <1>2, <2>1, <2>2 DEF FlowTyped, ShownIsPassed, StreamHas
    <2>4. Continues'
        BY <2>1, <2>2 DEF Continues
    <2>. QED
        BY <2>3, <2>4 DEF Flow
<1>. QED
    BY <1>1, <1>2 DEF ReceiverRests

LEMMA FlowBegins ==
    ASSUME Flow, NEW c, NEW seek \in {"beginning", "end", "any"},
           CreateReceiver(c, seek), UNCHANGED log
    PROVE  Flow'
<1>1. /\ receiver'.state = "open" /\ receiver'.start = 0 /\ receiver'.next = 0
      /\ rqueue' = <<>> /\ shown' = <<>>
    BY ReceiverCreated
<1>2. IsSequence(<<>>) /\ Len(<<>>) = 0
    BY EmptySeq DEF IsSequence
<1>. QED
    BY <1>1, <1>2 DEF Flow, FlowTyped, ShownIsPassed, ShownIsSent, Continues

LEMMA FlowServed ==
    ASSUME Flow, DOMAIN receiver = ReceiverFields, receiver.seek \in {"beginning", "end", "any"},
           Receives, UNCHANGED log
    PROVE  Flow'
<1>0. FlowTyped /\ ShownIsPassed /\ (Reading => Continues)
    BY DEF Flow
<1>1. /\ receiver.state = "open" /\ UNCHANGED <<shown, srcAt, conAt>> /\ (Reading' => Reading)
    BY ReceiverServed DEF Reading
<1>2. /\ IsSequence(log) /\ IsSequence(rqueue) /\ IsSequence(shown)
      /\ Len(log) \in Nat /\ Len(rqueue) \in Nat /\ Len(shown) \in Nat
      /\ receiver.start \in Nat /\ receiver.next \in Nat
      /\ receiver.start = 0 => receiver.next = 0
    BY <1>0, Sequence DEF FlowTyped
<1>3. CASE ServerSeeks
    <2>1. PICK i \in Nat \ {0} : receiver' = [receiver EXCEPT !.start = i, !.next = i]
        <3> DEFINE positions == CASE receiver.seek = "beginning" -> {1}
                                  [] receiver.seek = "end"       -> {Len(log) + 1}
                                  [] receiver.seek = "any"       -> 1 .. Len(log) + 1
        <3>1. positions \subseteq Nat \ {0}
            BY <1>2
        <3>2. \E i \in positions : receiver' = [receiver EXCEPT !.start = i, !.next = i]
            BY <1>3 DEF ServerSeeks
        <3> HIDE DEF positions
        <3>. QED
            BY <3>1, <3>2
    <2>2. /\ receiver'.start = i /\ receiver'.next = i /\ receiver'.state = receiver.state
          /\ receiver.start = 0 /\ UNCHANGED rqueue
        BY <1>3, <2>1 DEF ServerSeeks, ReceiverFields
    <2>3. \A j : ~StreamHas(j, shown[j])
        BY <2>2 DEF StreamHas
    <2>4. ShownIsPassed'
        BY <1>0, <1>1, <2>3 DEF ShownIsPassed
    <2>5. ASSUME Reading' PROVE Continues'
        <3>1. Len(rqueue) = 0
            BY <1>0, <1>1, <1>2, <2>2, <2>5, EmptySeq DEF Continues
        <3>2. ShownIsSent
            BY <1>0, <1>1, <2>5 DEF Continues
        <3>3. Len(shown) = 0
            BY <1>2, <2>3, <3>2 DEF ShownIsSent
        <3>. QED
            BY <1>1, <2>2, <3>1, <3>3 DEF Continues, ShownIsSent
    <2>. QED
        BY <1>1, <1>2, <2>2, <2>4, <2>5 DEF Flow, FlowTyped
<1>4. CASE WorkerPushes
    <2>1. /\ rqueue' = Append(rqueue, log[receiver.next]) /\ receiver.next \in 1 .. Len(log)
          /\ receiver'.start = receiver.start /\ receiver'.next = receiver.next + 1
          /\ receiver'.state = receiver.state
        BY <1>4 DEF WorkerPushes, ReceiverFields
    <2>2. /\ IsSequence(rqueue') /\ Len(rqueue') = Len(rqueue) + 1
          /\ \A i \in 1 .. Len(rqueue) : rqueue'[i] = rqueue[i]
          /\ rqueue'[Len(rqueue) + 1] = log[receiver.next]
        BY <1>2, <2>1, Appended
    <2>3. ShownIsPassed'
        BY <1>0, <1>1, <2>1 DEF ShownIsPassed, StreamHas
    <2>4. ASSUME Reading' PROVE Continues'
        <3>1. /\ receiver.start # 0 => receiver.next = receiver.start + Len(shown) + Len(rqueue)
              /\ receiver.start = 0 => Len(rqueue) = 0
              /\ \A i \in 1 .. Len(rqueue) : StreamHas(Len(shown) + i, rqueue[i])
            BY <1>0, <1>1, <2>4, EmptySeq DEF Continues
        <3>2. receiver.start >= 1 /\ receiver.next = receiver.start + Len(shown) + Len(rqueue)
            BY <1>2, <2>1, <3>1
        <3>3. ASSUME NEW i \in 1 .. Len(rqueue) + 1 PROVE StreamHas(Len(shown) + i, rqueue[i])'
            <4>1. CASE i \in 1 .. Len(rqueue)
                BY <1>1, <2>1, <2>2, <3>1, <4>1 DEF StreamHas
            <4>2. CASE i = Len(rqueue) + 1
                <5>1. receiver.start + (Len(shown) + i) - 1 = receiver.next
                    BY <1>2, <3>2, <4>2
                <5>. QED
                    BY <1>1, <1>2, <2>1, <2>2, <3>2, <4>2, <5>1 DEF StreamHas
            <4>. QED
                BY <1>2, <4>1, <4>2
        <3>4. /\ 1 .. Len(rqueue') = 1 .. Len(rqueue) + 1
              /\ receiver'.start # 0 /\ UNCHANGED shown
              /\ receiver'.next = receiver'.start + Len(shown) + Len(rqueue')
            <4>1. Len(rqueue') = Len(rqueue) + 1
                BY <2>2
            <4>2. receiver'.next = receiver.next + 1 /\ receiver'.start = receiver.start
                BY <2>1
            <4>3. receiver'.next = receiver'.start + Len(shown) + (Len(rqueue) + 1)
                BY <1>2, <3>2, <4>2
            <4>. QED
                BY <1>1, <3>2, <4>1, <4>2, <4>3
        <3>5. ShownIsSent'
            BY <1>0, <1>1, <2>1, <2>4 DEF Continues, ShownIsSent, StreamHas
        <3>. QED
            BY <3>3, <3>4, <3>5 DEF Continues, StreamHas
    <2>. QED
        BY <1>1, <1>2, <2>1, <2>2, <2>3, <2>4 DEF Flow, FlowTyped
<1>5. CASE WorkerEmplacesEos \/ WorkerPushesEmpty
    <2>1. PICK own \in WorkersOwn :
              /\ rqueue' = Append(rqueue, own)
              /\ receiver'.start = receiver.start /\ receiver'.next = receiver.next
              /\ receiver'.state # "open"
        BY <1>5 DEF WorkerEmplacesEos, WorkerPushesEmpty, ReceiverFields, WorkersOwn
    <2>2. /\ IsSequence(rqueue') /\ Len(rqueue') = Len(rqueue) + 1
          /\ \A i \in 1 .. Len(rqueue) : rqueue'[i] = rqueue[i]
          /\ rqueue'[Len(rqueue) + 1] = own
        BY <1>2, <2>1, Appended
    <2>3. ShownIsPassed'
        BY <1>0, <1>1, <2>1 DEF ShownIsPassed, StreamHas
    <2>4. ASSUME Reading' PROVE Continues'
        <3>1. \A i \in 1 .. Len(rqueue) : StreamHas(Len(shown) + i, rqueue[i])
            BY <1>0, <1>1, <2>4 DEF Continues
        <3>2. ShownIsSent'
            BY <1>0, <1>1, <2>1, <2>4 DEF Continues, ShownIsSent, StreamHas
        <3>. QED
            BY <1>1, <1>2, <2>1, <2>2, <3>1, <3>2 DEF Continues, StreamHas
    <2>. QED
        BY <1>1, <1>2, <2>1, <2>2, <2>3, <2>4 DEF Flow, FlowTyped
<1>. QED
    BY <1>3, <1>4, <1>5 DEF Receives, ReceiverNext

\* The owner takes the first packet of the queue and shows it, unless it is an EOS.
LEMMA FlowPopped ==
    ASSUME Flow, Reading, NEW p, Pops(p), UNCHANGED log
    PROVE  FlowTyped' /\ ShownIsPassed' /\ (~IsEos(p) => Continues')
<1>0. FlowTyped /\ ShownIsPassed /\ Continues
    BY DEF Flow
<1>1. /\ rqueue # <<>> /\ p = Head(rqueue) /\ rqueue' = Tail(rqueue) /\ UNCHANGED receiver
      /\ IsEos(p) => UNCHANGED shown
      /\ ~IsEos(p) => shown' = Append(shown, p)
    BY DEF Pops
<1>2. /\ IsSequence(log) /\ IsSequence(rqueue) /\ IsSequence(shown)
      /\ Len(log) \in Nat /\ Len(rqueue) \in Nat /\ Len(shown) \in Nat
      /\ receiver.start \in Nat /\ receiver.next \in Nat
    BY <1>0, Sequence DEF FlowTyped
<1>3. /\ Len(rqueue) >= 1 /\ p = rqueue[1]
      /\ IsSequence(rqueue') /\ Len(rqueue') = Len(rqueue) - 1
      /\ \A i \in 1 .. Len(rqueue') : rqueue'[i] = rqueue[i + 1]
    BY <1>1, <1>2, Beheaded
<1>4. CASE IsEos(p)
    BY <1>0, <1>1, <1>2, <1>3, <1>4 DEF FlowTyped, ShownIsPassed, StreamHas
<1>6. ShownIsSent
    BY <1>0, <1>1 DEF Continues
<1>5. CASE ~IsEos(p)
    <2>0. shown' = Append(shown, p)
        BY <1>1, <1>5
    <2>1. /\ IsSequence(shown') /\ Len(shown') = Len(shown) + 1
          /\ \A i \in 1 .. Len(shown) : shown'[i] = shown[i]
          /\ shown'[Len(shown) + 1] = p
        BY <1>2, <2>0, Appended
    <2>2. FlowTyped'
        BY <1>0, <1>1, <1>3, <2>1 DEF FlowTyped
    <2>3. \/ StreamHas(Len(shown) + 1, p)
          \/ Len(rqueue) = 1 /\ receiver.state # "open" /\ p = EmptyPacket
        BY <1>0, <1>2, <1>3, <1>5, LocalEosIsEos DEF Continues, WorkersOwn
    <2>4. ShownIsPassed'
        <3> SUFFICES ASSUME NEW i \in 1 .. Len(shown) + 1
                     PROVE  \/ StreamHas(i, shown'[i]) /\ ~IsEos(shown'[i])
                            \/ i = Len(shown') /\ shown'[i] = EmptyPacket
            BY <1>1, <2>1 DEF ShownIsPassed, StreamHas
        <3>1. CASE i \in 1 .. Len(shown)
            BY <1>6, <2>1, <3>1 DEF ShownIsSent
        <3>2. CASE i = Len(shown) + 1
            BY <1>5, <2>1, <2>3, <3>2
        <3>. QED
            BY <1>2, <3>1, <3>2
    <2>5. Continues'
        <3>9. ASSUME receiver.state = "open" \/ rqueue' # <<>> PROVE ShownIsSent'
            <4>1. StreamHas(Len(shown) + 1, p)
                <5>1. Len(rqueue) = 1 => rqueue' = <<>>
                    BY <1>3, EmptySeq
                <5>. QED
                    BY <2>3, <3>9, <5>1
            <4> SUFFICES ASSUME NEW i \in 1 .. Len(shown) + 1
                         PROVE  StreamHas(i, shown'[i]) /\ ~IsEos(shown'[i])
                BY <1>1, <2>1 DEF ShownIsSent, StreamHas
            <4>2. CASE i \in 1 .. Len(shown)
                BY <1>6, <2>1, <4>2 DEF ShownIsSent
            <4>3. CASE i = Len(shown) + 1
                BY <1>5, <2>1, <4>1, <4>3
            <4>. QED
                BY <1>2, <4>2, <4>3
        <3>1. ASSUME NEW i \in 1 .. Len(rqueue')
              PROVE  \/ StreamHas(Len(shown') + i, rqueue'[i])
                     \/ i = Len(rqueue') /\ receiver.state # "open" /\ rqueue'[i] \in WorkersOwn
            <4>1. i + 1 \in 1 .. Len(rqueue) /\ rqueue'[i] = rqueue[i + 1]
                BY <1>2, <1>3
            <4>2. Len(shown') + i = Len(shown) + (i + 1)
                BY <1>2, <2>1
            <4>3. \/ StreamHas(Len(shown) + (i + 1), rqueue[i + 1])
                  \/ /\ i + 1 = Len(rqueue) /\ receiver.state # "open"
                     /\ rqueue[i + 1] \in WorkersOwn
                BY <1>0, <4>1 DEF Continues
            <4>. QED
                BY <1>2, <1>3, <4>1, <4>2, <4>3
        <3>2. receiver.state = "open" => receiver.start # 0
            BY <1>0, <1>1 DEF Continues
        <3>3. receiver.state = "open" => receiver.next = receiver.start + Len(shown) + Len(rqueue)
            BY <1>0, <3>2 DEF Continues
        <3>4. Len(shown') + Len(rqueue') = Len(shown) + Len(rqueue)
            BY <1>2, <1>3, <2>1
        <3>5. /\ Len(shown') \in Nat /\ Len(rqueue') \in Nat
              /\ Len(shown) \in Nat /\ Len(rqueue) \in Nat /\ receiver.start \in Nat
            BY <1>2, <1>3, <2>1
        <3>6. ASSUME receiver.state = "open"
              PROVE  receiver.next = receiver.start + Len(shown') + Len(rqueue')
            <4>1. receiver.next = receiver.start + (Len(shown) + Len(rqueue))
                BY <3>3, <3>5, <3>6
            <4>2. receiver.next = receiver.start + (Len(shown') + Len(rqueue'))
                BY <3>4, <4>1
            <4>. QED
                BY <3>5, <4>2
        <3>7. receiver' = receiver /\ log' = log
            BY <1>1
        <3>8. ASSUME NEW i \in 1 .. Len(rqueue')
              PROVE  \/ StreamHas(Len(shown) + i, rqueue[i])'
                     \/ i = Len(rqueue') /\ receiver'.state # "open" /\ rqueue'[i] \in WorkersOwn
            BY <3>1, <3>7 DEF StreamHas
        <3>. QED
            BY <3>2, <3>6, <3>7, <3>8, <3>9 DEF Continues
    <2>. QED
        BY <2>2, <2>4, <2>5
<1>. QED
    BY <1>4, <1>5

LEMMA FlowKept == ReceiverInv /\ Flow /\ [Next]_vars => Flow'
<1> SUFFICES ASSUME ReceiverInv, Flow, [Next]_vars PROVE Flow'
    OBVIOUS
<1>0. /\ DOMAIN receiver = ReceiverFields /\ receiver.seek \in {"beginning", "end", "any"}
      /\ ReceiverTurns
    BY DEF ReceiverInv, Fields
<1>1. CASE ReceiverKeeps /\ Grows
    BY <1>1, FlowWhileOthersMove
<1>2. CASE UNCHANGED log /\ (ConsumerTyped \/ ConsumerLeaves \/ SrcMoves \/ SrcFresh \/ SrcIsSet)
    <2>1. ReceiverRests /\ (Reading' => Reading)
        BY <1>2 DEF ConsumerTyped, ConsumerLeaves, SrcMoves, SrcFresh, SrcIsSet, ReceiverRests,
                    Reading, ReadingStates
    <2>. QED
        BY <1>0, <1>2, <2>1, FlowWhileNothingIsReceived
<1>3. CASE UNCHANGED log /\ SrcConnects
    BY <1>3, FlowBegins DEF SrcConnects
<1>4. CASE UNCHANGED log /\ QueueConnects
    BY <1>4, FlowBegins, ConsumerOptionsPassed DEF QueueConnects
<1>5. CASE UNCHANGED log /\ Receives
    BY <1>0, <1>5, FlowServed
<1>6. CASE UNCHANGED log /\ SrcCreates
    <2>1. PICK flow : CreateReturns(flow)
        BY <1>6 DEF SrcCreates
    <2>2. Reading /\ conAt' # "pop" /\ UNCHANGED <<receiver, conAt>>
        BY <1>0, <1>6, <2>1
           DEF SrcCreates, CreateReturns, ReceiverTurns, Reading, ReadingStates, PopTimesOut, Pops,
               receiverVars
    <2>3. CASE UNCHANGED <<rqueue, shown>> /\ flow = "ERROR"
        BY <1>6, <2>1, <2>2, <2>3
           DEF Flow, FlowTyped, ShownIsPassed, StreamHas, Reading, ReadingStates, CreateReturns
    <2>4. CASE rqueue # <<>> /\ rqueue' = Tail(rqueue) /\ UNCHANGED shown /\ flow = "ERROR"
        <3>1. FlowTyped'
            BY <1>6, <2>2, <2>4, Beheaded DEF Flow, FlowTyped
        <3>2. ShownIsPassed'
            BY <1>6, <2>2, <2>4 DEF Flow, ShownIsPassed, StreamHas
        <3>3. ~Reading'
            BY <2>1, <2>2, <2>4 DEF CreateReturns, Reading, ReadingStates
        <3>. QED
            BY <3>1, <3>2, <3>3 DEF Flow
    <2>5. CASE \E p : Pops(p) /\ (IsEos(p) => flow = "EOS")
        <3>1. PICK p : Pops(p) /\ (IsEos(p) => flow = "EOS")
            BY <2>5
        <3>2. FlowTyped' /\ ShownIsPassed' /\ (~IsEos(p) => Continues')
            BY <1>6, <2>2, <3>1, FlowPopped
        <3>3. IsEos(p) => ~Reading'
            BY <2>1, <2>2, <3>1 DEF CreateReturns, Reading, ReadingStates
        <3>. QED
            BY <3>2, <3>3 DEF Flow
    <2>6. \/ UNCHANGED <<rqueue, shown>> /\ flow = "ERROR"
          \/ rqueue # <<>> /\ rqueue' = Tail(rqueue) /\ UNCHANGED shown /\ flow = "ERROR"
          \/ Pops(Head(rqueue)) /\ (IsEos(Head(rqueue)) => flow = "EOS")
        BY <2>1 DEF CreateReturns, PopTimesOut, receiverVars
    <2>. QED
        BY <2>3, <2>4, <2>5, <2>6
<1>7. CASE UNCHANGED log /\ QueuePops
    <2>1. conAt = "pop" /\ Reading /\ srcAt' \notin ReadingStates
        BY <1>0, <1>7 DEF QueuePops, Pop, Reading, ReceiverTurns, ReadingStates
    <2>2. CASE UNCHANGED <<receiver, rqueue, shown>> /\ conAt' = "exited"
        BY <1>7, <2>1, <2>2 DEF Flow, FlowTyped, ShownIsPassed, StreamHas, Reading
    <2>3. CASE \E p : Pops(p) /\ (IsEos(p) => conAt' = "exited")
        <3>1. PICK p : Pops(p) /\ (IsEos(p) => conAt' = "exited")
            BY <2>3
        <3>2. FlowTyped' /\ ShownIsPassed' /\ (~IsEos(p) => Continues')
            BY <1>7, <2>1, <3>1, FlowPopped
        <3>. QED
            BY <2>1, <3>1, <3>2 DEF Flow, Reading
    <2>4. \/ UNCHANGED <<receiver, rqueue, shown>> /\ conAt' = "exited"
          \/ \E p : Pops(p) /\ (IsEos(p) => conAt' = "exited")
        BY <1>7 DEF QueuePops, Pop, PopTimesOut, ConsumerExits, receiverVars
    <2>. QED
        BY <2>2, <2>3, <2>4
<1>. QED
    BY <1>1, <1>2, <1>3, <1>4, <1>5, <1>6, <1>7, ReceiverSteps DEF ReceiverMoves

\* Whoever sends, and however the stream, the worker and the owner take turns:
\* what was shown is a run of the stream without a gap, a repetition or an EOS,
\* and behind it at most the empty packet of an rpc that ended with OK.
THEOREM ShownIsRunOfStreamCorrect == Spec => []ShownIsRunOfStream
<1>1. Init => ReceiverInv /\ Flow
    BY ReceiverInitial, FlowInitial
<1>2. ReceiverInv /\ Flow /\ [Next]_vars => (ReceiverInv /\ Flow)'
    BY ReceiverKept, FlowKept
<1>3. Flow => ShownIsRunOfStream
    <2> SUFFICES ASSUME Flow, Run # <<>>
                 PROVE  /\ Run = SubSeq(log, receiver.start, receiver.start + Len(Run) - 1)
                        /\ \A i \in DOMAIN Run : ~IsEos(Run[i])
        BY DEF ShownIsRunOfStream
    <2>0. IsSequence(shown) /\ receiver.start \in Nat /\ ShownIsPassed
        BY DEF Flow, FlowTyped
    <2>1. IsSequence(Run) /\ \A i \in 1 .. Len(Run) : StreamHas(i, Run[i]) /\ ~IsEos(Run[i])
        <3>1. CASE Run = shown /\ ~(shown # <<>> /\ Last(shown) = EmptyPacket)
            <4>1. shown # <<>> => shown[Len(shown)] # EmptyPacket
                BY <3>1 DEF Last
            <4>2. Len(shown) \in Nat /\ (shown = <<>> => Len(shown) = 0)
                BY <2>0, Sequence, EmptySeq
            <4>. QED
                BY <2>0, <3>1, <4>1, <4>2 DEF ShownIsPassed
        <3>2. CASE Run = Front(shown) /\ shown # <<>>
            <4>1. /\ IsSequence(Run) /\ Len(Run) = Len(shown) - 1 /\ Len(shown) \in Nat
                  /\ \A i \in 1 .. Len(Run) : Run[i] = shown[i]
                BY <2>0, <3>2, Fronted, Sequence
            <4>. QED
                BY <2>0, <4>1 DEF ShownIsPassed
        <3>. QED
            BY <3>1, <3>2 DEF Run
    <2> HIDE DEF Run
    <2>2. PICK S : Run \in Seq(S)
        BY <2>1 DEF IsSequence
    <2>8. Len(Run) \in Nat \ {0} /\ DOMAIN Run = 1 .. Len(Run)
        BY <2>1, Sequence
    <2> DEFINE m == receiver.start
               n == receiver.start + Len(Run) - 1
    <2>3. m \in Int /\ n \in Int /\ m <= n /\ n - m + 1 = Len(Run)
        BY <2>0, <2>8
    <2>4. \A i \in 1 .. Len(Run) : Run[i] \in S /\ Run[i] = log[m + i - 1]
        BY <2>1, <2>2, ElementOfSeq DEF StreamHas
    <2>5. \A i \in m .. n : log[i] \in S
        <3> SUFFICES ASSUME NEW i \in m .. n PROVE log[i] \in S
            OBVIOUS
        <3>1. i - m + 1 \in 1 .. Len(Run) /\ m + (i - m + 1) - 1 = i
            BY <2>0, <2>8
        <3>. QED
            BY <2>4, <3>1
    <2> HIDE DEF m, n
    <2>6. /\ SubSeq(log, m, n) \in Seq(S) /\ Len(SubSeq(log, m, n)) = Len(Run)
          /\ \A i \in 1 .. Len(Run) : SubSeq(log, m, n)[i] = log[m + i - 1]
        BY <2>3, <2>5, SubSeqProperties
    <2>7. Run = SubSeq(log, m, n)
        BY <2>2, <2>4, <2>6, SeqEqual
    <2>. QED
        BY <2>1, <2>7, <2>8 DEF m, n
<1>. QED
    BY <1>1, <1>2, <1>3, PTL DEF Spec

-----------------------------------------------------------------------------
(* What is done is what was typed.                                          *)

MgrKeeps == UNCHANGED <<call, flags>> /\ (mgrAt = "idle" <=> mgrAt' = "idle")

MgrTyped ==
    /\ mgrAt = "idle" /\ mgrAt' = "start" /\ UNCHANGED call
    /\ \E c \in typed.commands : c.cmd \in ManagerCommands /\ flags' = ManagerFlags(c)

MgrAsks(kind, verb) ==
    /\ mgrAt = "start" /\ mgrAt' = "call" /\ UNCHANGED flags
    /\ Operations[flags.op_id] = <<kind, verb>> /\ Named(kind, verb, flags)
    /\ call' = CallFor(kind, verb, flags)

MgrMoves == MgrKeeps \/ MgrTyped \/ (\E kind, verb : MgrAsks(kind, verb))

ChunkKeeps == UNCHANGED chunkVars

ChunkTyped ==
    /\ chunkAt = "idle" /\ chunkAt' = "start"
    /\ \E c \in typed.commands : c.cmd = "chunk" /\ chunk' = ChunkFlagsOf(c)

LEMMA ClientMoves == ClientNext \/ ServerNext => UNCHANGED call
<1>1. \A verb : OnPremChange(verb) => UNCHANGED call
    BY DEF OnPremChange, Return
<1>2. \A kind, verb : StartOperation(kind, verb) => UNCHANGED call
    BY DEF StartOperation, Return
<1>3. \A kind, verb, answers : Query(kind, verb, answers) => UNCHANGED call
    BY DEF Query, Return
<1>4. \A kind, result : Unpack(kind, result) => UNCHANGED call
    BY DEF Unpack, Return
<1>5. Poll \/ BackoffWait => UNCHANGED call
    BY DEF Poll, BackoffWait
<1>6. ServerNext => UNCHANGED call
    BY DEF ServerNext, OperationSucceeds, OperationFails, OtherClient, clientVars
<1>. QED
    BY <1>1, <1>2, <1>3, <1>4, <1>5, <1>6
       DEF ClientNext, OnPremCreateStream, OnPremDeleteStream, OnPremListStreams, CreateStream,
           DeleteStream, ListStreams, CreateCluster, DeleteCluster, ListClusters, GetCluster,
           UnpackStream, UnpackCluster

LEMMA MgrNextMoves == MgrNext => MgrMoves
<1>1. ASSUME NEW why, MgrExits(why), mgrAt = "start" PROVE MgrKeeps
    BY <1>1 DEF MgrExits, MgrKeeps, managementVars, clientVars
<1>2. ASSUME NEW kind, NEW verb, MgrCalls(kind, verb) PROVE MgrMoves
    <2>1. mgrAt = "start" /\ Operations[flags.op_id] = <<kind, verb>>
        BY <1>2 DEF MgrCalls
    <2>2. CASE \E why : MgrExits(why)
        BY <1>1, <2>1, <2>2 DEF MgrMoves
    <2>3. CASE /\ Named(kind, verb, flags) /\ Begin(CallFor(kind, verb, flags))
               /\ mgrAt' = "call" /\ UNCHANGED flags
        BY <2>1, <2>3 DEF Begin, MgrAsks, MgrMoves
    <2>. QED
        BY <1>2, <2>2, <2>3 DEF MgrCalls
<1>3. MgrMain \/ MgrLogs => MgrKeeps
    BY DEF MgrMain, MgrLogs, MgrExits, MgrKeeps, managementVars, clientVars
<1>4. ClientNext /\ UNCHANGED mgrVars => MgrKeeps
    BY ClientMoves DEF mgrVars, MgrKeeps
<1>. QED
    BY <1>2, <1>3, <1>4
       DEF MgrNext, MgrMoves, MgrCreateStream, MgrListStreams, MgrDeleteStream, MgrCreateCluster,
           MgrListClusters, MgrDeleteCluster, MgrGetCluster

LEMMA CommandSteps ==
    [Next]_vars => typed' = typed /\ MgrMoves /\ (ChunkKeeps \/ ChunkTyped \/ ChunkNext)
<1> SUFFICES ASSUME [Next]_vars
             PROVE  MgrMoves /\ (ChunkKeeps \/ ChunkTyped \/ ChunkNext)
    BY SenderSteps
<1>1. UNCHANGED manageVars => MgrKeeps
    BY DEF manageVars, managementVars, clientVars, mgrVars, MgrKeeps
<1>2. CASE Cli
    <2>1. PICK c \in typed.commands : CliExec(c)
        BY <1>2 DEF Cli
    <2>2. CASE /\ c.cmd \in ManagerCommands /\ mgrAt = "idle"
               /\ mgrAt' = "start" /\ flags' = ManagerFlags(c)
               /\ UNCHANGED <<managementVars, chunkVars>>
        BY <2>2 DEF MgrTyped, MgrMoves, ChunkKeeps, managementVars, clientVars
    <2>3. CASE UNCHANGED manageVars /\ (UNCHANGED chunkVars \/ ChunkTyped)
        BY <1>1, <2>3 DEF MgrMoves, ChunkKeeps
    <2>. QED
        BY <2>1, <2>2, <2>3 DEF CliExec, ChunkTyped
<1>3. CASE ManagerStep
    BY <1>3, MgrNextMoves DEF ManagerStep, ChunkKeeps
<1>4. CASE ManagementServer
    BY <1>4, ClientMoves DEF ManagementServer, mgrVars, MgrKeeps, MgrMoves, ChunkKeeps
<1>5. CASE ChunkerStep
    BY <1>1, <1>5 DEF ChunkerStep, MgrMoves
<1>6. CASE IngesterStep \/ Kill \/ StreamStep \/ ReceiverStep \/ ConsumerStep \/ ConsumerEnvironment
              \/ DirectStep \/ SinkStep \/ SrcStep \/ PacketStep
    BY <1>1, <1>6 DEF IngesterStep, Kill, StreamStep, ReceiverStep, ConsumerStep,
                      ConsumerEnvironment, DirectStep, SinkStep, SrcStep, PacketStep, MgrMoves,
                      ChunkKeeps
<1>7. CASE UNCHANGED vars
    BY <1>1, <1>7 DEF vars, MgrMoves, ChunkKeeps
<1>. QED
    BY <1>2, <1>3, <1>4, <1>5, <1>6, <1>7 DEF Next

AskedOf(c) ==
    /\ call.kind = KindOf(c) /\ call.verb = c.verb
    /\ c.verb # "list" => call.name = c.name

MgrAsked ==
    \A c \in typed.commands : c.cmd \in ManagerCommands =>
        /\ mgrAt = "idle" => call = NoCall
        /\ mgrAt # "idle" => flags = ManagerFlags(c)
        /\ c.cmd # "manager_app" /\ call # NoCall => AskedOf(c)

ChunkAsked ==
    \A c \in typed.commands : c.cmd = "chunk" =>
        /\ chunkAt # "idle" => chunk = ChunkFlagsOf(c)
        /\ chunkAt = "export" => exporter = ExporterOptions(chunk)

CommandInv == typed \in Scenarios /\ MgrAsked /\ ChunkAsked

\* The registry of manager_app has the commands of aisctl under their numbers.
LEMMA Registry ==
    ASSUME NEW verb \in {"create", "delete", "list"}
    PROVE  /\ Operations[StreamCommands[verb].op_id] = <<"stream", verb>>
           /\ Operations[OnpremCommands[verb].op_id] = <<"stream", verb>>
           /\ Operations[ClusterCommands[verb].op_id] = <<"cluster", verb>>
           /\ verb # "list" => /\ StreamCommands[verb].named /\ OnpremCommands[verb].named
                               /\ ClusterCommands[verb].named
<1>1. /\ Operations[0] = <<"stream", "create">> /\ Operations[1] = <<"stream", "list">>
      /\ Operations[2] = <<"stream", "delete">> /\ Operations[3] = <<"cluster", "create">>
      /\ Operations[4] = <<"cluster", "list">> /\ Operations[5] = <<"cluster", "delete">>
    BY DEF Operations
<1>2. CASE verb = "create"
    BY <1>1, <1>2 DEF StreamCommands, OnpremCommands, ClusterCommands, Command
<1>3. CASE verb = "delete"
    BY <1>1, <1>3 DEF StreamCommands, OnpremCommands, ClusterCommands, Command
<1>4. CASE verb = "list"
    BY <1>1, <1>4 DEF StreamCommands, OnpremCommands, ClusterCommands, Command
<1>. QED
    BY <1>2, <1>3, <1>4

LEMMA StreamFlags ==
    ASSUME NEW c, c.cmd = "managed stream" \/ c.cmd = "onprem stream",
           c.verb \in {"create", "delete", "list"}
    PROVE  /\ Operations[ManagerFlags(c).op_id] = <<"stream", c.verb>>
           /\ c.cmd = "managed stream" => ManagerFlags(c).use_google_managed_service = TRUE
           /\ c.cmd = "onprem stream" => ManagerFlags(c).use_google_managed_service = FALSE
           /\ c.verb # "list" => ManagerFlags(c).stream_name = Normalize(c.name)
<1>1. CASE c.cmd = "managed stream"
    <2>1. ManagerFlags(c) = ManagedStreamFlags(c)
        BY <1>1 DEF ManagerFlags
    <2>2. /\ ManagedStreamFlags(c).op_id = StreamCommands[c.verb].op_id
          /\ ManagedStreamFlags(c).use_google_managed_service = TRUE
          /\ StreamCommands[c.verb].named => ManagedStreamFlags(c).stream_name = Normalize(c.name)
        BY DEF ManagedStreamFlags, DefaultFlags, CppBool
    <2>. QED
        BY <1>1, <2>1, <2>2, Registry
<1>2. CASE c.cmd = "onprem stream"
    <2>1. ManagerFlags(c) = OnpremStreamFlags(c)
        BY <1>2 DEF ManagerFlags
    <2>2. /\ OnpremStreamFlags(c).op_id = OnpremCommands[c.verb].op_id
          /\ OnpremStreamFlags(c).use_google_managed_service = FALSE
          /\ OnpremCommands[c.verb].named => OnpremStreamFlags(c).stream_name = Normalize(c.name)
        BY DEF OnpremStreamFlags, DefaultFlags, CppBool
    <2>. QED
        BY <1>2, <2>1, <2>2, Registry
<1>. QED
    BY <1>1, <1>2

LEMMA ClusterFlags ==
    ASSUME NEW c, c.cmd = "managed cluster", c.verb \in {"create", "delete", "list"}
    PROVE  /\ Operations[ManagerFlags(c).op_id] = <<"cluster", c.verb>>
           /\ c.verb # "list" => ManagerFlags(c).cluster_name = Normalize(c.name)
<1>1. ManagerFlags(c) = ManagedClusterFlags(c)
    BY DEF ManagerFlags
<1>2. /\ ManagedClusterFlags(c).op_id = ClusterCommands[c.verb].op_id
      /\ ClusterCommands[c.verb].named => ManagedClusterFlags(c).cluster_name = Normalize(c.name)
    BY DEF ManagedClusterFlags, DefaultFlags
<1>. QED
    BY <1>1, <1>2, Registry

\* What manager_app asks of the client is what was typed.
LEMMA AskedAsTyped ==
    ASSUME NEW c, c.cmd \in ManagerCommands \ {"manager_app"},
           c.verb \in {"create", "delete", "list"},
           NEW kind, NEW verb, flags = ManagerFlags(c), MgrAsks(kind, verb)
    PROVE  AskedOf(c)'
<1>1. /\ Operations[flags.op_id] = <<kind, verb>> /\ Named(kind, verb, flags)
      /\ call'.kind = IF kind = "stream" /\ ~flags.use_google_managed_service
                      THEN "onprem" ELSE kind
      /\ call'.verb = verb
      /\ verb # "list" => call'.name = NameOf(kind, flags)
    BY DEF MgrAsks, CallFor
<1>2. \A name : Normalize(name) # "" => Normalize(name) = name
    BY DEF Normalize, NoText
<1>3. CASE c.cmd = "managed stream" \/ c.cmd = "onprem stream"
    <2>0. /\ c.cmd = "managed stream" => flags.use_google_managed_service = TRUE
          /\ c.cmd = "onprem stream" => flags.use_google_managed_service = FALSE
          /\ c.verb # "list" => flags.stream_name = Normalize(c.name)
        BY <1>3, StreamFlags
    <2>1. kind = "stream" /\ verb = c.verb
        <3>1. Operations[flags.op_id] = <<"stream", c.verb>>
            BY <1>3, StreamFlags
        <3>. QED
            BY <1>1, <3>1
    <2>2. call'.kind = KindOf(c)
        BY <1>1, <1>3, <2>0, <2>1 DEF KindOf
    <2>3. verb # "list" => call'.name = c.name
        <3>1. verb # "list" => flags.stream_name # ""
            BY <1>1, <2>1 DEF Named, NameOf
        <3>2. verb # "list" => call'.name = flags.stream_name
            BY <1>1, <2>1 DEF NameOf
        <3>. QED
            BY <1>2, <2>0, <2>1, <3>1, <3>2
    <2>. QED
        BY <1>1, <2>1, <2>2, <2>3 DEF AskedOf
<1>4. CASE c.cmd = "managed cluster"
    <2>0. /\ Operations[flags.op_id] = <<"cluster", c.verb>>
          /\ c.verb # "list" => flags.cluster_name = Normalize(c.name)
        BY <1>4, ClusterFlags
    <2>1. kind = "cluster" /\ verb = c.verb
        BY <1>1, <2>0
    <2>2. call'.kind = KindOf(c)
        BY <1>1, <1>4, <2>1 DEF KindOf
    <2>3. verb # "list" => call'.name = c.name
        <3>1. verb # "list" => flags.cluster_name # ""
            BY <1>1, <2>1 DEF Named, NameOf
        <3>2. verb # "list" => call'.name = flags.cluster_name
            BY <1>1, <2>1 DEF NameOf
        <3>. QED
            BY <1>2, <2>0, <2>1, <3>1, <3>2
    <2>. QED
        BY <1>1, <2>1, <2>2, <2>3 DEF AskedOf
<1>. QED
    BY <1>3, <1>4 DEF ManagerCommands

LEMMA CommandInitial == Init => CommandInv
BY DEF Init, ManagementInit, MgrInit, CommandInv, MgrAsked, ChunkAsked

LEMMA CommandKept == CommandInv /\ [Next]_vars => CommandInv'
<1> SUFFICES ASSUME CommandInv, [Next]_vars PROVE CommandInv'
    OBVIOUS
<1>0. /\ typed \in Scenarios /\ typed' = typed /\ MgrAsked /\ ChunkAsked
      /\ MgrMoves /\ (ChunkKeeps \/ ChunkTyped \/ ChunkNext)
    BY CommandSteps DEF CommandInv
<1>1. /\ \A c, d \in typed.commands :
             c.cmd \in ManagerCommands /\ d.cmd \in ManagerCommands => c = d
      /\ \A c, d \in typed.commands : c.cmd = "chunk" /\ d.cmd = "chunk" => c = d
    <2>1. \A group \in {ManagerCommands, {"ingest"}, ConsumerCommands, {"chunk"}} :
              \A c, d \in typed.commands : c.cmd \in group /\ d.cmd \in group => c = d
        BY <1>0, ScenariosAssumption
    <2>. QED
        BY <2>1
<1>2. MgrAsked'
    <2>1. CASE MgrKeeps
        BY <1>0, <2>1 DEF MgrKeeps, MgrAsked, AskedOf
    <2>2. CASE MgrTyped
        <3>1. PICK d \in typed.commands : d.cmd \in ManagerCommands /\ flags' = ManagerFlags(d)
            BY <2>2 DEF MgrTyped
        <3>2. call' = NoCall /\ mgrAt' # "idle"
            BY <1>0, <2>2, <3>1 DEF MgrTyped, MgrAsked
        <3>. QED
            BY <1>0, <1>1, <3>1, <3>2 DEF MgrAsked
    <2>3. ASSUME NEW kind, NEW verb, MgrAsks(kind, verb) PROVE MgrAsked'
        <3> SUFFICES ASSUME NEW c \in typed.commands, c.cmd \in ManagerCommands
                     PROVE  /\ mgrAt' # "idle" /\ flags' = ManagerFlags(c)
                            /\ c.cmd # "manager_app" => AskedOf(c)'
            BY <1>0 DEF MgrAsked
        <3>1. mgrAt' # "idle" /\ flags' = flags /\ flags = ManagerFlags(c)
            BY <1>0, <2>3 DEF MgrAsks, MgrAsked
        <3>2. c.cmd # "manager_app" => c.verb \in {"create", "delete", "list"}
            BY <1>0, ScenariosAssumption
        <3>. QED
            BY <2>3, <3>1, <3>2, AskedAsTyped
    <2>. QED
        BY <1>0, <2>1, <2>2, <2>3 DEF MgrMoves
<1>3. ChunkAsked'
    <2>1. CASE ChunkKeeps
        BY <1>0, <2>1 DEF ChunkKeeps, chunkVars, ChunkAsked
    <2>2. CASE ChunkTyped
        <3>1. PICK d \in typed.commands : d.cmd = "chunk" /\ chunk' = ChunkFlagsOf(d)
            BY <2>2 DEF ChunkTyped
        <3>. QED
            BY <1>0, <1>1, <2>2, <3>1 DEF ChunkTyped, ChunkAsked
    <2>3. CASE ChunkNext
        <3>1. /\ chunkAt # "idle" /\ UNCHANGED chunk
              /\ chunkAt' = "export" => exporter' = ExporterOptions(chunk)
            BY <2>3 DEF ChunkNext, RunChunker, ChunkerEnds
        <3>. QED
            BY <1>0, <3>1 DEF ChunkAsked
    <2>. QED
        BY <1>0, <2>1, <2>2, <2>3
<1>. QED
    BY <1>0, <1>2, <1>3 DEF CommandInv

LEMMA ConnectionAsTyped == \A c : ConnectsAsTyped(ConnFlags(c), c.conn)
BY DEF ConnectsAsTyped, ConnFlags, Normalize, CppBool

LEMMA UploadAsTyped ==
    ASSUME NEW c, c.sub \in {"uri", "gstreamer", "stream"}, "None" \notin {c.bucket, c.input},
           exporter = ExporterOptions(ChunkFlagsOf(c))
    PROVE  ExportsAsTyped(c)
<1> DEFINE common == [DefaultChunk EXCEPT
                         !.upload_to_gcs = CppBoolOfString(c.bucket),
                         !.gcs_bucket_name = Normalize(c.bucket),
                         !.keep_local = CppBool(c.keep_local),
                         !.use_uri_source = CppBool(FALSE),
                         !.working_buffer_size = c.size]
           f == ChunkFlagsOf(c)
           Common(g) == /\ g.upload_to_gcs = (c.bucket # NoText) /\ g.gcs_bucket_name = c.bucket
                        /\ g.keep_local = c.keep_local
<1>1. /\ Common(common) /\ ~common.use_uri_source /\ ~common.use_gstreamer_input_source
      /\ DOMAIN common = DOMAIN DefaultChunk
    BY DEF DefaultChunk, CppBoolOfString, CppBool, Normalize
<1> DEFINE source(g)   == IF g.use_uri_source \/ g.use_gstreamer_input_source THEN "gstreamer"
                          ELSE "stream"
           pipeline(g) == IF g.use_uri_source THEN DecideUriGstreamerPipeline(g.source_uri)
                          ELSE g.gstreamer_input_pipeline
<1>4. exporter = [source |-> source(f), pipeline |-> pipeline(f),
                  upload_to_gcs |-> f.upload_to_gcs, gcs_bucket_name |-> f.gcs_bucket_name,
                  keep_local |-> f.keep_local, conn |-> f.conn,
                  working_buffer_size |-> f.working_buffer_size]
    BY Zenon DEF ExporterOptions
<1> HIDE DEF source, pipeline, f
<1>5. /\ exporter.upload_to_gcs = f.upload_to_gcs /\ exporter.gcs_bucket_name = f.gcs_bucket_name
      /\ exporter.keep_local = f.keep_local /\ exporter.conn = f.conn
      /\ exporter.source = source(f) /\ exporter.pipeline = pipeline(f)
    BY <1>4
<1>2. CASE c.sub = "stream"
    <2>1. f = [common EXCEPT !.conn = ConnFlags(c)]
        BY <1>2 DEF ChunkFlagsOf, ChunkStream, f
    <2> HIDE DEF common
    <2>2. /\ Common(f) /\ ~f.use_uri_source /\ ~f.use_gstreamer_input_source
          /\ f.conn = ConnFlags(c)
        BY <1>1, <2>1 DEF DefaultChunk
    <2>3. source(f) = "stream"
        BY <2>2 DEF source
    <2>. QED
        BY <1>2, <1>5, <2>2, <2>3, ConnectionAsTyped DEF ExportsAsTyped
<1>3. CASE c.sub = "uri"
    <2>1. f = [common EXCEPT !.use_uri_source = TRUE, !.source_uri = Normalize(c.input)]
        BY <1>3 DEF ChunkFlagsOf, ChunkUri, CppBool, f
    <2> HIDE DEF common
    <2>2. Common(f) /\ f.use_uri_source /\ f.source_uri = c.input
        BY <1>1, <1>3, <2>1 DEF DefaultChunk, Normalize
    <2>3. source(f) = "gstreamer" /\ pipeline(f) = DecideUriGstreamerPipeline(c.input)
        BY <2>2 DEF source, pipeline
    <2>. QED
        BY <1>3, <1>5, <2>2, <2>3 DEF ExportsAsTyped, DecideUriGstreamerPipeline
<1>6. CASE c.sub = "gstreamer"
    <2>1. f = [common EXCEPT !.use_gstreamer_input_source = TRUE,
                             !.gstreamer_input_pipeline = Normalize(c.input)]
        BY <1>6 DEF ChunkFlagsOf, ChunkGstreamer, CppBool, f
    <2> HIDE DEF common
    <2>2. /\ Common(f) /\ ~f.use_uri_source /\ f.use_gstreamer_input_source
          /\ f.gstreamer_input_pipeline = c.input
        BY <1>1, <2>1 DEF DefaultChunk, Normalize
    <2>3. source(f) = "gstreamer" /\ pipeline(f) = c.input
        BY <2>2 DEF source, pipeline
    <2>. QED
        BY <1>6, <1>5, <2>2, <2>3 DEF ExportsAsTyped
<1>. QED
    BY <1>2, <1>3, <1>6

\* For any commands: the call of the management client, the connection of a
\* sender and of a receiver and the source, the bucket and the local files of an
\* exporter are those of the command line, through the op ids, flags, launch
\* strings and properties in between.
THEOREM RunsAsAskedCorrect == Spec => []RunsAsAsked
<1>1. Init => SenderInv /\ ReceiverInv /\ CommandInv
    BY SenderInitial, ReceiverInitial, CommandInitial
<1>2. /\ SenderInv /\ ReceiverInv /\ CommandInv /\ [Next]_vars
      => (SenderInv /\ ReceiverInv /\ CommandInv)'
    BY SenderKept, ReceiverKept, CommandKept
<1>3. SenderInv /\ ReceiverInv /\ CommandInv => RunsAsAsked
    <2> SUFFICES ASSUME SenderInv, ReceiverInv, CommandInv, NEW c \in typed.commands
                 PROVE  /\ c.cmd \in ManagerCommands \ {"manager_app"} /\ call # NoCall
                              => AskedOf(c)
                        /\ c.cmd = "ingest" /\ session > 0 => ConnectsAsTyped(conn, c.conn)
                        /\ c.cmd \in ConsumerCommands /\ receiver # NoReceiver =>
                               ConnectsAsTyped(receiver.conn, c.conn)
                        /\ c.cmd = "chunk" /\ chunkAt = "export" => ExportsAsTyped(c)
        BY DEF RunsAsAsked, AskedOf
    <2>1. c.cmd \in ManagerCommands \ {"manager_app"} /\ call # NoCall => AskedOf(c)
        BY DEF CommandInv, MgrAsked
    <2>2. c.cmd = "ingest" /\ session > 0 => ConnectsAsTyped(conn, c.conn)
        BY ConnectionAsTyped DEF SenderInv, IngestAsked
    <2>3. c.cmd \in ConsumerCommands /\ receiver # NoReceiver =>
              ConnectsAsTyped(receiver.conn, c.conn)
        BY ConnectionAsTyped DEF ReceiverInv, ConsumerAsked
    <2>4. ASSUME c.cmd = "chunk", chunkAt = "export"
          PROVE  ExportsAsTyped(c)
        <3>1. exporter = ExporterOptions(ChunkFlagsOf(c))
            BY <2>4 DEF CommandInv, ChunkAsked
        <3>2. c.sub \in {"uri", "gstreamer", "stream"} /\ "None" \notin {c.bucket, c.input}
            BY <2>4, ScenariosAssumption DEF CommandInv
        <3>. QED
            BY <3>1, <3>2, UploadAsTyped
    <2>. QED
        BY <2>1, <2>2, <2>3, <2>4
<1>. QED
    BY <1>1, <1>2, <1>3, PTL DEF Spec

-----------------------------------------------------------------------------
(* What a sender has written is in the stream or on its way.                *)

Streaming == writer = "open" \/ sent # <<>>
OnItsWay ==
    /\ Len(sent) = Cardinality(Delivered) + Len(wire)
    /\ \A i \in 1 .. Len(wire) : wire[i] = sent[Cardinality(Delivered) + i]

SessionInv ==
    /\ session \in Nat /\ IsSequence(log) /\ IsSequence(wire) /\ IsSequence(sent)
    /\ \A k \in 1 .. Len(log) : From(log[k]) \in 0 .. session
    /\ \A i \in 1 .. Len(wire) : From(wire[i]) = session
    /\ Streaming => session > 0 /\ writer # "unary" /\ InOrder
                        /\ Cardinality(Delivered) <= Len(sent)
    /\ writer = "open" => OnItsWay
    /\ finish = "OK" => writer = "none" /\ (sent # <<>> => AllDelivered)

SessionRests == UNCHANGED <<log, writer, wire, sent, session, finish>>
SessionBegins ==
    /\ UNCHANGED log /\ session' = session + 1
    /\ writer' \in {"unary", "open"} /\ wire' = <<>> /\ sent' = <<>> /\ finish' = "none"
SessionSends == \E p : From(p) = session /\ (SendOk(p) \/ SendFails(p))
SessionEnds == DeleteSender \/ FinishReturns \/ AbandonSender
OthersSend == (\E p : From(p) = 0 /\ log' = Append(log, p)) /\ UNCHANGED senderVars
SessionMoves ==
    \/ SessionRests \/ SessionBegins \/ SessionSends \/ SessionEnds
    \/ ServerReceives \/ RpcBreaks \/ OthersSend

\* The marks of a packet are neither its type nor its payload.
IsPacket(p) ==
    DOMAIN p = {"header", "payload"} /\ {"type_id", "descriptor"} \subseteq DOMAIN p.header
Alike(p, q) ==
    /\ IsPacket(q) /\ q.payload = p.payload
    /\ q.header.type_id = p.header.type_id /\ q.header.descriptor = p.header.descriptor

LEMMA MarksLeave ==
    ASSUME NEW p, NEW marks, IsPacket(p)
    PROVE  /\ Alike(p, SetPacketFlags(marks, p)) /\ Alike(p, UnsetPacketFlags(marks, p))
           /\ Alike(p, ClearPacketFlags(p)) /\ Alike(p, RestoreDefaultPacketFlags(p))
<1>1. \A q, g : IsPacket(q) => Alike(q, SetPacketFlags(g, q))
    BY DEF SetPacketFlags, Alike, IsPacket
<1>2. Alike(p, UnsetPacketFlags(marks, p))
    BY DEF UnsetPacketFlags, Alike, IsPacket
<1>3. Alike(p, ClearPacketFlags(p))
    BY DEF ClearPacketFlags, Alike, IsPacket
<1>4. \A g : Alike(p, SetPacketFlags(g, ClearPacketFlags(p)))
    BY <1>1, <1>3 DEF Alike
<1>. QED
    BY <1>1, <1>2, <1>3, <1>4 DEF RestoreDefaultPacketFlags

LEMMA PacketMadeOf ==
    ASSUME NEW v
    PROVE  LET p == MakePacket(v, EmptyHeader)
           IN  /\ IsPacket(p) /\ p.payload = v.bytes /\ p.header.type_id = TypeId(v.type)
               /\ p.header.descriptor = PackedDescriptor(v, EmptyHeader.descriptor)
<1> DEFINE p == PackInto(v, [header |-> EmptyHeader, payload |-> <<>>])
<1>1. /\ IsPacket(p) /\ p.payload = v.bytes /\ p.header.type_id = TypeId(v.type)
      /\ p.header.descriptor = PackedDescriptor(v, EmptyHeader.descriptor)
    BY DEF PackInto, IsPacket, EmptyHeader
<1>2. MakePacket(v, EmptyHeader) = RestoreDefaultPacketFlags(p)
    BY DEF MakePacket
<1> HIDE DEF p
<1>. QED
    BY <1>1, <1>2, MarksLeave DEF Alike

LEMMA PacketFrom ==
    ASSUME NEW from, NEW n
    PROVE  /\ From(Packet("buffer", from, n)) = from
           /\ From(Packet("string", from, n)) = from
           /\ From(Packet("eos", from, n)) = from
           /\ IsPacket(Packet("buffer", from, n)) /\ ~IsEos(Packet("buffer", from, n))
           /\ IsEos(Packet("eos", from, n))
<1> DEFINE buffer == GstreamerBuffer(Nothing, <<from, n>>)
           string == Value("string", Nothing, <<from, n>>)
           eos == Eos(<<from, n>>)
<1>1. /\ buffer.bytes = <<from, n>> /\ buffer.type = "GstreamerBuffer"
      /\ string.bytes = <<from, n>>
      /\ eos.bytes = <<from, n>> /\ eos.type = "Eos" /\ eos.about.name = "EOS"
    BY DEF GstreamerBuffer, Value, Eos, About
<1>2. /\ Packet("buffer", from, n) = MakePacket(buffer, EmptyHeader)
      /\ Packet("string", from, n) = MakePacket(string, EmptyHeader)
      /\ Packet("eos", from, n) = MakePacket(eos, EmptyHeader)
    BY DEF Packet, MakeEosPacket
<1> HIDE DEF buffer, string, eos
<1>3. /\ Packet("buffer", from, n).payload = <<from, n>>
      /\ Packet("string", from, n).payload = <<from, n>>
      /\ Packet("eos", from, n).payload = <<from, n>>
    BY <1>1, <1>2, PacketMadeOf
<1>4. TypeId("GstreamerBuffer") = "GSTREAMER_BUFFER" /\ TypeId("Eos") = "CONTROL_SIGNAL"
    BY DEF TypeId, Messages
<1>5. IsPacket(Packet("buffer", from, n)) /\ ~IsEos(Packet("buffer", from, n))
    BY <1>1, <1>2, <1>4, PacketMadeOf DEF IsEos, IsControlSignal
<1>6. PackedDescriptor(eos, EmptyHeader.descriptor) = Descriptor("CONTROL_SIGNAL", eos.about)
    BY <1>1, <1>4 DEF PackedDescriptor
<1>7. IsEos(Packet("eos", from, n))
    BY <1>1, <1>2, <1>4, <1>6, PacketMadeOf DEF IsEos, IsControlSignal, Descriptor
<1>. QED
    BY <1>3, <1>5, <1>7 DEF From

LEMMA SinkPackets ==
    ASSUME NEW n
    PROVE  /\ From(BufferPacket(n)) = session /\ From(EosPacket(n)) = session
           /\ ~IsEos(BufferPacket(n)) /\ IsEos(EosPacket(n))
<1> DEFINE p == Packet("buffer", session, n)
           q == SetIs("KeyFrame", n = 1, p)
<1>1. IsPacket(p) /\ From(p) = session /\ ~IsEos(p)
    BY PacketFrom
<1> HIDE DEF p
<1>2. q = SetPacketFlags({"KeyFrame"}, p) \/ q = UnsetPacketFlags({"KeyFrame"}, p)
    BY DEF SetIs
<1> HIDE DEF q
<1>3. Alike(p, q)
    BY <1>1, <1>2, MarksLeave
<1>4. BufferPacket(n) = SetPacketFlags({"FrameHead"}, q)
    BY DEF BufferPacket, SetIs, q, p
<1>5. Alike(q, BufferPacket(n))
    BY <1>3, <1>4, MarksLeave DEF Alike
<1>. QED
    BY <1>1, <1>3, <1>5, PacketFrom DEF Alike, From, IsEos, IsControlSignal, EosPacket

LEMMA DeliveredFinite ==
    ASSUME IsSequence(log)
    PROVE  /\ Delivered \subseteq 1 .. Len(log) /\ IsFiniteSet(Delivered)
           /\ Cardinality(Delivered) \in Nat
           /\ \A k : IsFiniteSet(UpTo(k)) /\ Cardinality(UpTo(k)) \in Nat
<1>1. Delivered \subseteq 1 .. Len(log) /\ Len(log) \in Nat
    BY Sequence DEF Delivered
<1>2. IsFiniteSet(1 .. Len(log))
    BY <1>1, FS_Interval
<1>3. IsFiniteSet(Delivered)
    BY <1>1, <1>2, FS_Subset
<1>4. ASSUME NEW k PROVE IsFiniteSet(UpTo(k))
    BY <1>3, FS_Subset DEF UpTo
<1>. QED
    BY <1>1, <1>3, <1>4, FS_CardinalityType

\* A packet comes to the end of the stream.
LEMMA DeliveredGrows ==
    ASSUME IsSequence(log), NEW p, log' = Append(log, p), session' = session,
           NEW n, n = Len(log) + 1
    PROVE  /\ IsSequence(log') /\ Len(log') = n /\ log'[n] = p
           /\ \A k \in 1 .. Len(log) : log'[k] = log[k]
           /\ \A k \in Delivered : UpTo(k)' = UpTo(k)
           /\ From(p) # session => Delivered' = Delivered
           /\ From(p) = session =>
                  /\ Delivered' = Delivered \cup {n}
                  /\ UpTo(n)' = Delivered'
                  /\ Cardinality(Delivered') = Cardinality(Delivered) + 1
<1>1. /\ IsSequence(log') /\ Len(log') = n /\ log'[n] = p
      /\ \A k \in 1 .. Len(log) : log'[k] = log[k]
    BY Appended
<1>2. Len(log) \in Nat /\ DOMAIN log = 1 .. Len(log) /\ DOMAIN log' = 1 .. n
    BY <1>1, Sequence
<1>3. DOMAIN log' = DOMAIN log \cup {n}
    BY <1>2
<1>4. Delivered \subseteq 1 .. Len(log) /\ IsFiniteSet(Delivered)
    BY DeliveredFinite
<1>5. Delivered' = IF From(p) = session THEN Delivered \cup {n} ELSE Delivered
    BY <1>1, <1>2, <1>3 DEF Delivered, From
<1>6. ASSUME NEW k \in Delivered PROVE UpTo(k)' = UpTo(k)
    <2>1. k \in 1 .. Len(log) /\ ~(n <= k)
        BY <1>2, <1>4
    <2>. QED
        BY <1>5, <2>1 DEF UpTo
<1>7. ASSUME From(p) = session
      PROVE  UpTo(n)' = Delivered' /\ Cardinality(Delivered') = Cardinality(Delivered) + 1
    <2>1. \A j \in Delivered' : j <= n
        BY <1>2, <1>4, <1>5
    <2>2. n \notin Delivered
        BY <1>2, <1>4
    <2>3. Cardinality(Delivered \cup {n}) = Cardinality(Delivered) + 1
        BY <1>4, <2>2, FS_AddElement
    <2>. QED
        BY <1>5, <1>7, <2>1, <2>3 DEF UpTo
<1>. QED
    BY <1>1, <1>5, <1>6, <1>7

LEMMA SessionCalls ==
    /\ \A c, unary : CreateSender(c, unary) => SessionBegins
    /\ \A c : CreateSenderFails(c) => SessionRests
    /\ \A p : SendPacket(p) /\ From(p) = session => SessionSends
    /\ NewSender => SessionBegins \/ SessionRests
<1>1. \A c, unary : CreateSender(c, unary) => SessionBegins
    BY DEF CreateSender, SessionBegins
<1>2. \A c : CreateSenderFails(c) => SessionRests
    BY DEF CreateSenderFails, SessionRests, senderVars
<1>. QED
    BY <1>1, <1>2 DEF SendPacket, SessionSends, NewSender

LEMMA SinkCalls ==
    /\ \A n : RenderSends(BufferPacket(n)) \/ RenderFails(BufferPacket(n)) => SessionMoves
    /\ \A n : StopSendsEos(n) => SessionMoves
    /\ StopDeletesSender \/ StopReturns => SessionMoves
    /\ SinkStart \/ SinkStartFails \/ RenderBegins \/ RenderDrops => SessionMoves
<1>1. \A n : From(BufferPacket(n)) = session /\ From(EosPacket(n)) = session
    BY SinkPackets
<1>2. \A n : RenderSends(BufferPacket(n)) \/ RenderFails(BufferPacket(n)) => SessionMoves
    BY <1>1, SessionCalls DEF RenderSends, RenderFails, SessionMoves
<1>3. \A n : StopSendsEos(n) => SessionMoves
    BY <1>1, SessionCalls DEF StopSendsEos, SessionMoves
<1>4. StopDeletesSender \/ StopReturns => SessionMoves
    BY DEF StopDeletesSender, StopReturns, SessionMoves, SessionEnds
<1>5. SinkStart \/ SinkStartFails \/ RenderBegins \/ RenderDrops => SessionMoves
    BY SessionCalls DEF SinkStart, SinkStartFails, RenderBegins, RenderDrops, SessionMoves,
       SessionRests, senderVars
<1>. QED
    BY <1>2, <1>3, <1>4, <1>5

LEMMA IngestSessions == IngestNext \/ IngestKilled => SessionMoves
<1>1. UNCHANGED <<log, senderVars>> \/ AbandonSender => SessionMoves
    BY DEF SessionMoves, SessionRests, SessionEnds, senderVars
<1>2. IngestExits => SessionMoves
    BY <1>1 DEF IngestExits
<1>3. IngestBegins \/ IngestLaunchFails \/ IngestPlayFails \/ IngestKilled => SessionMoves
    BY <1>1, <1>2 DEF IngestBegins, IngestLaunchFails, IngestPlayFails, IngestKilled
<1>4. IngestBuilds \/ IngestPlaying \/ SourceEnds \/ IngestPops \/ IngestReturns
          \/ IngestNextIteration => SessionMoves
    BY <1>1 DEF IngestBuilds, IngestPlaying, SourceEnds, IngestPops, IngestReturns,
                IngestNextIteration
<1>5. IngestPlays \/ SourcePushes \/ IngestStops => SessionMoves
    BY SinkCalls DEF IngestPlays, SourcePushes, IngestStops
<1>6. Rendered => SessionMoves
    BY SinkCalls DEF Rendered, Buffer
<1>. QED
    BY <1>3, <1>4, <1>5, <1>6 DEF IngestNext

LEMMA SinkAppSessions == AppNext => SessionMoves
<1>1. UNCHANGED <<log, senderVars>> => SessionMoves
    BY DEF SessionMoves, SessionRests, senderVars
<1>2. \A name, value : AppSets(name, value) => SessionMoves
    BY <1>1 DEF AppSets
<1>. QED
    BY <1>1, <1>2, SinkCalls DEF AppNext

LEMMA DirectSessions == DirectNext => SessionMoves
<1>1. DirectCreate => SessionMoves
    BY SessionCalls DEF DirectCreate, SessionMoves
<1>2. DirectSend => SessionMoves
    BY PacketFrom DEF DirectSend, SessionMoves, SessionSends
<1>3. DirectDelete \/ DirectReturns => SessionMoves
    BY DEF DirectDelete, DirectReturns, SessionMoves, SessionEnds, SessionRests, senderVars
<1>. QED
    BY <1>1, <1>2, <1>3 DEF DirectNext

LEMMA SessionSteps == [Next]_vars => SessionMoves
<1>1. UNCHANGED <<log, senderVars>> => SessionMoves
    BY DEF SessionMoves, SessionRests, senderVars
<1>2. UNCHANGED produceVars => SessionMoves
    BY <1>1 DEF produceVars
<1>3. Cli => SessionMoves
    BY <1>1, <1>2 DEF Cli, CliExec
<1>4. IngesterStep \/ Kill \/ DirectStep \/ SinkStep => SessionMoves
    BY IngestSessions, DirectSessions, SinkAppSessions DEF IngesterStep, Kill, DirectStep, SinkStep
<1>5. StreamStep => SessionMoves
    <2>1. OtherProducer => OthersSend
        BY PacketFrom DEF OtherProducer, OthersSend
    <2>. QED
        BY <2>1 DEF StreamStep, SenderEnvironment, SessionMoves
<1>6. ManagerStep \/ ManagementServer \/ ReceiverStep \/ ConsumerStep \/ ConsumerEnvironment
          \/ ChunkerStep \/ SrcStep \/ PacketStep \/ UNCHANGED vars => SessionMoves
    BY <1>2 DEF ManagerStep, ManagementServer, ReceiverStep, ConsumerStep, ConsumerEnvironment,
                ChunkerStep, SrcStep, PacketStep, vars
<1>. QED
    BY <1>3, <1>4, <1>5, <1>6 DEF Next

LEMMA SessionInitial == Init => SessionInv
<1> SUFFICES ASSUME Init PROVE SessionInv
    OBVIOUS
<1>1. log = <<>> /\ wire = <<>> /\ sent = <<>> /\ session = 0 /\ writer = "none" /\ finish = "none"
    BY DEF Init, SenderInit
<1>2. <<>> \in Seq({}) /\ Len(<<>>) = 0
    OBVIOUS
<1>. QED
    BY <1>1, <1>2 DEF SessionInv, Streaming, IsSequence

LEMMA SessionStands ==
    ASSUME UNCHANGED <<log, session>>
    PROVE  /\ Delivered' = Delivered /\ (sent' = sent /\ InOrder => InOrder')
           /\ \A k : UpTo(k)' = UpTo(k)
           /\ UNCHANGED <<wire, sent>> /\ OnItsWay => OnItsWay'
           /\ sent' = sent /\ AllDelivered => AllDelivered'
<1>1. Delivered' = Delivered
    BY DEF Delivered, From
<1>2. \A k : UpTo(k)' = UpTo(k)
    BY <1>1 DEF UpTo
<1>. QED
    BY <1>1, <1>2 DEF InOrder, OnItsWay, AllDelivered

LEMMA SessionKeptByBeginning == SessionInv /\ SessionBegins => SessionInv'
<1> SUFFICES ASSUME SessionInv, SessionBegins PROVE SessionInv'
    OBVIOUS
<1>1. /\ session \in Nat /\ session' = session + 1 /\ log' = log /\ IsSequence(log)
      /\ wire' = <<>> /\ sent' = <<>> /\ finish' = "none"
      /\ \A k \in 1 .. Len(log) : From(log[k]) \in 0 .. session
    BY DEF SessionInv, SessionBegins
<1>2. /\ \A k \in 1 .. Len(log') : From(log'[k]) \in 0 .. session' /\ From(log'[k]) # session'
      /\ DOMAIN log' = 1 .. Len(log')
    BY <1>1, Sequence
<1>3. Delivered' = {}
    BY <1>2 DEF Delivered, From
<1>4. Cardinality(Delivered') = 0
    BY <1>3, FS_EmptySet
<1>5. <<>> \in Seq({}) /\ Len(<<>>) = 0
    OBVIOUS
<1>6. IsSequence(wire') /\ IsSequence(sent') /\ IsSequence(log')
    BY <1>1, <1>5 DEF IsSequence
<1>7. InOrder'
    BY <1>3 DEF InOrder
<1>8. OnItsWay'
    BY <1>1, <1>4, <1>5 DEF OnItsWay
<1>9. session' \in Nat /\ session' > 0
    BY <1>1
<1>10. Streaming' => writer' # "unary"
    BY <1>1 DEF Streaming, SessionBegins
<1>11. Cardinality(Delivered') <= Len(sent')
    BY <1>1, <1>4, <1>5
<1>12. \A i \in 1 .. Len(wire') : From(wire'[i]) = session'
    BY <1>1, <1>5
<1>. QED
    BY <1>1, <1>2, <1>6, <1>7, <1>8, <1>9, <1>10, <1>11, <1>12 DEF SessionInv

LEMMA SessionKeptBySending == SessionInv /\ SessionSends => SessionInv'
<1> SUFFICES ASSUME SessionInv, NEW p, From(p) = session, SendOk(p) \/ SendFails(p)
             PROVE  SessionInv'
    BY DEF SessionSends
<1>0. /\ session \in Nat /\ IsSequence(log) /\ IsSequence(wire) /\ IsSequence(sent)
      /\ \A k \in 1 .. Len(log) : From(log[k]) \in 0 .. session
      /\ \A i \in 1 .. Len(wire) : From(wire[i]) = session
      /\ Len(log) \in Nat /\ Len(wire) \in Nat /\ Len(sent) \in Nat
      /\ Cardinality(Delivered) \in Nat
    BY Sequence, DeliveredFinite DEF SessionInv
<1>1. CASE UNCHANGED <<log, writer, wire, sent, session, finish>>
    BY <1>1, SessionStands DEF SessionInv, Streaming
<1>2. CASE /\ writer = "open" /\ wire' = Append(wire, p) /\ sent' = Append(sent, p)
           /\ UNCHANGED <<log, writer, session, finish>>
    <2>1. /\ IsSequence(wire') /\ Len(wire') = Len(wire) + 1 /\ wire'[Len(wire) + 1] = p
          /\ \A i \in 1 .. Len(wire) : wire'[i] = wire[i]
        BY <1>0, <1>2, Appended
    <2>2. /\ IsSequence(sent') /\ Len(sent') = Len(sent) + 1 /\ sent'[Len(sent) + 1] = p
          /\ \A i \in 1 .. Len(sent) : sent'[i] = sent[i]
        BY <1>0, <1>2, Appended
    <2>3. session > 0 /\ InOrder /\ OnItsWay /\ finish # "OK"
        BY <1>2 DEF SessionInv, Streaming
    <2>4. Delivered' = Delivered /\ \A k : UpTo(k)' = UpTo(k)
        BY <1>2, SessionStands
    <2>5. InOrder'
        <3> SUFFICES ASSUME NEW k \in Delivered
                     PROVE  log[k] = sent'[Cardinality(UpTo(k))]
            BY <1>2, <2>4 DEF InOrder
        <3>1. log[k] = sent[Cardinality(UpTo(k))]
            BY <2>3 DEF InOrder
        <3>2. k \in UpTo(k) /\ UpTo(k) \subseteq Delivered /\ IsFiniteSet(Delivered)
            BY <1>0, DeliveredFinite DEF UpTo
        <3>3. Cardinality(UpTo(k)) \in 1 .. Cardinality(Delivered)
            <4>1. Cardinality(UpTo(k)) <= Cardinality(Delivered)
                BY <3>2, FS_Subset
            <4>2. IsFiniteSet(UpTo(k)) /\ Cardinality(UpTo(k)) \in Nat
                BY <1>0, DeliveredFinite
            <4>3. Cardinality(UpTo(k)) # 0
                BY <3>2, <4>2, FS_EmptySet
            <4>. QED
                BY <1>0, <4>1, <4>2, <4>3
        <3>4. Cardinality(UpTo(k)) \in 1 .. Len(sent)
            BY <1>0, <2>3, <3>3 DEF OnItsWay
        <3>. QED
            BY <2>2, <3>1, <3>4
    <2>6. OnItsWay'
        <3>1. Len(sent) = Cardinality(Delivered) + Len(wire)
            BY <2>3 DEF OnItsWay
        <3>2. Len(sent') = Cardinality(Delivered) + Len(wire')
            BY <1>0, <2>1, <2>2, <3>1
        <3>3. ASSUME NEW i \in 1 .. Len(wire')
              PROVE  wire'[i] = sent'[Cardinality(Delivered) + i]
            <4>1. CASE i \in 1 .. Len(wire)
                <5>1. Cardinality(Delivered) + i \in 1 .. Len(sent)
                    BY <1>0, <3>1, <4>1
                <5>. QED
                    BY <2>1, <2>2, <2>3, <4>1, <5>1 DEF OnItsWay
            <4>2. CASE i = Len(wire) + 1
                <5>1. Cardinality(Delivered) + i = Len(sent) + 1
                    BY <1>0, <3>1, <4>2
                <5>. QED
                    BY <2>1, <2>2, <4>2, <5>1
            <4>. QED
                BY <1>0, <2>1, <4>1, <4>2
        <3>. QED
            BY <2>4, <3>2, <3>3 DEF OnItsWay
    <2>7. \A i \in 1 .. Len(wire') : From(wire'[i]) = session
        BY <1>0, <2>1
    <2>8. Cardinality(Delivered) <= Len(sent')
        BY <1>0, <2>2, <2>3 DEF OnItsWay
    <2>. QED
        BY <1>0, <1>2, <2>1, <2>2, <2>3, <2>4, <2>5, <2>6, <2>7, <2>8 DEF SessionInv, Streaming
<1>3. CASE /\ writer = "unary" /\ log' = Append(log, p)
           /\ UNCHANGED <<writer, wire, sent, session, finish>>
    <2>1. sent = <<>> /\ finish # "OK"
        BY <1>3 DEF SessionInv, Streaming
    <2>2. /\ IsSequence(log') /\ Len(log') = Len(log) + 1 /\ log'[Len(log) + 1] = p
          /\ \A k \in 1 .. Len(log) : log'[k] = log[k]
        BY <1>0, <1>3, Appended
    <2>3. \A k \in 1 .. Len(log') : From(log'[k]) \in 0 .. session
        BY <1>0, <2>2
    <2>. QED
        BY <1>0, <1>3, <2>1, <2>2, <2>3 DEF SessionInv, Streaming
<1>. QED
    BY <1>1, <1>2, <1>3 DEF SendOk, SendFails, senderVars

LEMMA SessionKeptByReceiving == SessionInv /\ ServerReceives => SessionInv'
<1> SUFFICES ASSUME SessionInv, ServerReceives PROVE SessionInv'
    OBVIOUS
<1> DEFINE n == Len(log) + 1
           p == Head(wire)
           c == Cardinality(Delivered)
<1>0. /\ session \in Nat /\ IsSequence(log) /\ IsSequence(wire) /\ IsSequence(sent)
      /\ \A k \in 1 .. Len(log) : From(log[k]) \in 0 .. session
      /\ \A i \in 1 .. Len(wire) : From(wire[i]) = session
      /\ Len(log) \in Nat /\ Len(wire) \in Nat /\ Len(sent) \in Nat /\ c \in Nat
    BY Sequence, DeliveredFinite DEF SessionInv
<1>1. /\ writer = "open" /\ wire # <<>> /\ log' = Append(log, p) /\ wire' = Tail(wire)
      /\ UNCHANGED <<writer, sent, session, finish>>
    BY DEF ServerReceives
<1>2. /\ Len(wire) >= 1 /\ p = wire[1] /\ IsSequence(wire') /\ Len(wire') = Len(wire) - 1
      /\ \A i \in 1 .. Len(wire') : wire'[i] = wire[i + 1]
    BY <1>0, <1>1, Beheaded
<1>3. session > 0 /\ InOrder /\ OnItsWay /\ finish # "OK"
    BY <1>1 DEF SessionInv, Streaming
<1>4. From(p) = session /\ p = sent[c + 1] /\ Len(sent) = c + Len(wire)
    BY <1>0, <1>2, <1>3 DEF OnItsWay
<1>5. /\ IsSequence(log') /\ Len(log') = n /\ log'[n] = p
      /\ \A k \in 1 .. Len(log) : log'[k] = log[k]
      /\ \A k \in Delivered : UpTo(k)' = UpTo(k)
      /\ Delivered' = Delivered \cup {n} /\ Cardinality(Delivered') = c + 1
      /\ \A k : k = n => UpTo(k)' = Delivered'
    BY <1>0, <1>1, <1>4, DeliveredGrows
<1>6. Delivered \subseteq 1 .. Len(log)
    BY <1>0, DeliveredFinite
<1> HIDE DEF n, p, c
<1>7. InOrder'
    <2>1. ASSUME NEW k \in Delivered PROVE log'[k] = sent'[Cardinality(UpTo(k)')]
        BY <1>1, <1>3, <1>5, <1>6 DEF InOrder
    <2>2. ASSUME NEW k, k = n PROVE log'[k] = sent'[Cardinality(UpTo(k)')]
        BY <1>1, <1>4, <1>5, <2>2
    <2>3. \A k \in Delivered' : log'[k] = sent'[Cardinality(UpTo(k)')]
        BY <1>5, <2>1, <2>2
    <2>. QED
        BY <2>3 DEF InOrder
<1>8. OnItsWay'
    <2>1. Len(sent') = Cardinality(Delivered') + Len(wire')
        BY <1>0, <1>1, <1>2, <1>4, <1>5
    <2>2. ASSUME NEW i \in 1 .. Len(wire')
          PROVE  wire'[i] = sent'[Cardinality(Delivered') + i]
        <3>1. wire'[i] = wire[i + 1] /\ i + 1 \in 1 .. Len(wire)
            BY <1>0, <1>2
        <3>2. wire[i + 1] = sent[c + (i + 1)]
            BY <1>3, <3>1 DEF OnItsWay, c
        <3>3. c + (i + 1) = Cardinality(Delivered') + i
            BY <1>0, <1>5
        <3>. QED
            BY <1>1, <3>1, <3>2, <3>3
    <2>. QED
        BY <2>1, <2>2 DEF OnItsWay
<1>9. ASSUME NEW i \in 1 .. Len(wire') PROVE From(wire'[i]) = session
    <2> HIDE DEF c, n, p
    <2>1. wire'[i] = wire[i + 1] /\ i + 1 \in 1 .. Len(wire)
        BY <1>0, <1>2
    <2>. QED
        BY <1>0, <2>1
<1>10. ASSUME NEW k \in 1 .. Len(log') PROVE From(log'[k]) \in 0 .. session
    <2> HIDE DEF c, n, p
    <2>1. CASE k = n
        BY <1>0, <1>4, <1>5, <2>1
    <2>2. CASE k \in 1 .. Len(log)
        BY <1>0, <1>5, <2>2
    <2>3. k \in 1 .. Len(log) \/ k = n
        BY <1>0, <1>5 DEF n
    <2>. QED
        BY <2>1, <2>2, <2>3
<1>11. Cardinality(Delivered') <= Len(sent')
    BY <1>0, <1>1, <1>2, <1>4, <1>5
<1>. QED
    BY <1>0, <1>1, <1>2, <1>3, <1>5, <1>7, <1>8, <1>9, <1>10, <1>11 DEF SessionInv, Streaming

LEMMA SessionKeptByOthers == SessionInv /\ OthersSend => SessionInv'
<1> SUFFICES ASSUME SessionInv, NEW p, From(p) = 0, log' = Append(log, p), UNCHANGED senderVars
             PROVE  SessionInv'
    BY DEF OthersSend
<1>0. /\ session \in Nat /\ IsSequence(log) /\ IsSequence(wire) /\ IsSequence(sent)
      /\ \A k \in 1 .. Len(log) : From(log[k]) \in 0 .. session
      /\ \A i \in 1 .. Len(wire) : From(wire[i]) = session
      /\ Len(log) \in Nat
    BY Sequence DEF SessionInv
<1>1. UNCHANGED <<writer, wire, sent, session, finish>>
    BY DEF senderVars
<1>2. /\ IsSequence(log') /\ Len(log') = Len(log) + 1 /\ log'[Len(log) + 1] = p
      /\ \A k \in 1 .. Len(log) : log'[k] = log[k]
    BY <1>0, Appended
<1>3. \A k \in 1 .. Len(log') : From(log'[k]) \in 0 .. session
    BY <1>0, <1>2
<1>4. ASSUME session > 0
      PROVE  /\ Delivered' = Delivered /\ (InOrder => InOrder')
             /\ (OnItsWay => OnItsWay') /\ (AllDelivered => AllDelivered')
    <2>1. From(p) # session
        BY <1>4
    <2>2. Delivered' = Delivered /\ \A k \in Delivered : UpTo(k)' = UpTo(k)
        BY <1>0, <1>1, <2>1, DeliveredGrows
    <2>3. \A k \in Delivered : log'[k] = log[k]
        BY <1>0, <1>2, DeliveredFinite
    <2>. QED
        BY <1>1, <2>2, <2>3 DEF InOrder, OnItsWay, AllDelivered
<1>5. Streaming' = Streaming
    BY <1>1 DEF Streaming
<1>6. CASE session > 0
    BY <1>0, <1>1, <1>2, <1>3, <1>4, <1>5, <1>6 DEF SessionInv
<1>7. CASE ~(session > 0)
    BY <1>0, <1>1, <1>2, <1>3, <1>5, <1>7 DEF SessionInv, Streaming
<1>. QED
    BY <1>6, <1>7

LEMMA SessionKept == SessionInv /\ [Next]_vars => SessionInv'
<1> SUFFICES ASSUME SessionInv, SessionMoves PROVE SessionInv'
    BY SessionSteps
<1>1. CASE SessionRests
    BY <1>1, SessionStands DEF SessionRests, SessionInv, Streaming
<1>2. <<>> \in Seq({}) /\ Len(<<>>) = 0 /\ IsSequence(<<>>)
    BY DEF IsSequence
<1>3. CASE DeleteSender
    BY <1>3, SessionStands DEF DeleteSender, SessionInv, Streaming
<1>4. CASE AbandonSender
    BY <1>2, <1>4, SessionStands DEF AbandonSender, SessionInv, Streaming
<1>5. CASE RpcBreaks
    BY <1>2, <1>5, SessionStands DEF RpcBreaks, SessionInv, Streaming
<1>6. CASE FinishReturns
    <2>1. writer = "open" => AllDelivered
        <3> SUFFICES ASSUME writer = "open" PROVE AllDelivered
            OBVIOUS
        <3>1. OnItsWay /\ wire = <<>> /\ IsSequence(log)
            BY <1>6 DEF FinishReturns, SessionInv
        <3>2. Cardinality(Delivered) \in Nat /\ Len(wire) = 0
            BY <1>2, <3>1, DeliveredFinite
        <3>. QED
            BY <3>1, <3>2 DEF OnItsWay, AllDelivered
    <2>. QED
        BY <1>6, <2>1, SessionStands DEF FinishReturns, SessionInv, Streaming
<1>. QED
    BY <1>1, <1>3, <1>4, <1>5, <1>6, SessionKeptByBeginning, SessionKeptBySending,
       SessionKeptByReceiving, SessionKeptByOthers DEF SessionMoves, SessionEnds

\* A streaming AIS_Sender's packets reach the stream in order and at most once,
\* and all of them if Finish returned OK (PacketSender::Send and ~PacketSender):
\* for any commands, whatever else is sent, and whenever the rpc breaks.
THEOREM SessionDeliveredCorrect == Spec => []SessionDelivered
<1>1. SessionInv => SessionDelivered
    BY DEF SessionInv, Streaming, SessionDelivered
<1>. QED
    BY <1>1, SessionInitial, SessionKept, PTL DEF Spec

-----------------------------------------------------------------------------
(* What ingester_app has played, sent and lost.                             *)

Bus == bus["ingester_app"]
Launch == launch["ingester_app"]

Counted ==
    /\ left \in Nat /\ lost \in Nat
    /\ sinkAt = "rendering" => left > 0
    /\ "ERROR" \notin Bus =>
           /\ Len(sent) + lost + left = MaxBuffers
           /\ \A i \in 1 .. Len(sent) : ~IsEos(sent[i])
           /\ "EOS" \in Bus => left = 0

Ended ==
    /\ sent # <<>> /\ IsEos(Last(sent))
    /\ \A i \in 1 .. Len(sent) - 1 : ~IsEos(sent[i])
    /\ Len(sent) - 1 + lost = MaxBuffers

Played ==
    \/ Launch \in {"idle", "returned"} /\ sinkAt = "none"
    \/ Launch = "built" /\ Bus = {} /\ left = MaxBuffers /\ sinkAt = "null"
    \/ Launch = "built" /\ Bus = {} /\ sinkAt = "started" /\ Counted
    \/ Launch \in {"playing", "stopping"} /\ sinkAt \in {"started", "rendering"} /\ Counted
    \/ /\ Launch = "stopping" /\ sinkAt \in {"stopping", "null"}
       /\ Bus = {"EOS"} /\ ais_status = "OK" => Ended

SourceInv ==
    /\ DOMAIN bus = Apps /\ DOMAIN launch = Apps
    /\ "direct" \notin typed.runs => writer # "unary"
    /\ ingAt = "idle" => Bus = {} /\ Launch = "idle"
    /\ ingAt # "idle" => typed.runs \cap {"direct", "sink"} = {} /\ Played

LaunchTyped == DOMAIN bus = Apps /\ DOMAIN launch = Apps
LaunchStands == LaunchTyped' /\ Bus' = Bus /\ Launch' = Launch
SourceStands ==
    LaunchStands /\ UNCHANGED <<sinkAt, left, lost, sent, ais_status, ingAt>>
Streams == writer' = writer \/ writer' # "unary"

LEMMA LaunchCalls ==
    ASSUME LaunchTyped
    PROVE  /\ LaunchFails("ingester_app") =>
                  LaunchTyped' /\ Launch = "idle" /\ Launch' = "returned" /\ Bus' = Bus
           /\ LaunchBuilds("ingester_app") =>
                  LaunchTyped' /\ Launch = "idle" /\ Launch' = "built" /\ Bus' = {}
           /\ LaunchPlayFails("ingester_app") =>
                  LaunchTyped' /\ Launch = "built" /\ Launch' = "returned" /\ Bus' = Bus
           /\ \A d : LaunchPlays("ingester_app", d) =>
                  LaunchTyped' /\ Launch = "built" /\ Launch' = "playing" /\ Bus' = Bus
           /\ LaunchPops("ingester_app") =>
                  LaunchTyped' /\ Launch = "playing" /\ Launch' = "stopping" /\ Bus' = Bus
           /\ LaunchReturns("ingester_app") =>
                  LaunchTyped' /\ Launch = "stopping" /\ Launch' = "returned" /\ Bus' = Bus
           /\ LaunchReset("ingester_app") => LaunchTyped' /\ Launch' = "idle" /\ Bus' = Bus
           /\ \A m : Post("ingester_app", m) /\ UNCHANGED launch =>
                  LaunchTyped' /\ Launch' = Launch /\ Bus' = Bus \cup {m}
           /\ UNCHANGED launchVars => LaunchStands
<1>1. \A v : /\ DOMAIN [bus EXCEPT !["ingester_app"] = v] = Apps
             /\ [bus EXCEPT !["ingester_app"] = v]["ingester_app"] = v
             /\ DOMAIN [launch EXCEPT !["ingester_app"] = v] = Apps
             /\ [launch EXCEPT !["ingester_app"] = v]["ingester_app"] = v
    BY DEF LaunchTyped, Apps
<1>. QED
    BY <1>1 DEF LaunchFails, LaunchBuilds, LaunchPlayFails, LaunchPlays, LaunchPops, LaunchReturns,
            LaunchReset, Post, launchVars, LaunchStands, LaunchTyped, Bus, Launch

\* The other application has a pipeline of its own.
LEMMA OtherLaunch ==
    ASSUME LaunchTyped, PlaybackNext \/ StreamingThread \/ PlaybackEnvironment \/ ConsumerAborts
    PROVE  LaunchStands
<1>1. \A v : /\ DOMAIN [bus EXCEPT !["playback_app"] = v] = Apps
             /\ [bus EXCEPT !["playback_app"] = v]["ingester_app"] = bus["ingester_app"]
             /\ DOMAIN [launch EXCEPT !["playback_app"] = v] = Apps
             /\ [launch EXCEPT !["playback_app"] = v]["ingester_app"] = launch["ingester_app"]
    BY DEF LaunchTyped, Apps
<1>2. UNCHANGED <<bus, launch>> => LaunchStands
    BY DEF LaunchStands, LaunchTyped, Bus, Launch
<1>3. \A d : LaunchFails("playback_app") \/ LaunchBuilds("playback_app")
          \/ LaunchPlayFails("playback_app") \/ LaunchPlays("playback_app", d)
          \/ LaunchPops("playback_app") \/ LaunchReturns("playback_app")
          \/ LaunchReset("playback_app") \/ StopperWakes("playback_app") => LaunchStands
    BY <1>1 DEF LaunchFails, LaunchBuilds, LaunchPlayFails, LaunchPlays, LaunchPops, LaunchReturns,
            LaunchReset, StopperWakes, LaunchStands, LaunchTyped, Bus, Launch
<1>4. \A m : Post("playback_app", m) /\ UNCHANGED launch => LaunchStands
    BY <1>1 DEF Post, LaunchStands, LaunchTyped, Bus, Launch
<1>5. PlaybackBegins \/ PlaybackLaunchFails \/ PlaybackBuilds \/ PlaybackStarts
          \/ PlaybackPlays => LaunchStands
    BY <1>2, <1>3 DEF PlaybackBegins, PlaybackLaunchFails, PlaybackBuilds, PlaybackStarts,
                      PlaybackPlays, launchVars
<1>6. PlaybackPlayFails \/ PlaybackPops \/ PlaybackStops \/ PlaybackReturns \/ PlaybackEnds
          => LaunchStands
    BY <1>2, <1>3 DEF PlaybackPlayFails, PlaybackPops, PlaybackStops, PlaybackReturns,
                      PlaybackEnds, launchVars
<1>7. StreamingThread => LaunchStands
    BY <1>2, <1>4 DEF StreamingThread
<1>8. PlaybackEnvironment => LaunchStands
    BY <1>3, <1>4 DEF PlaybackEnvironment, DownstreamFails, PlaybackStopper
<1>9. ConsumerAborts => LaunchStands
    BY <1>3 DEF ConsumerAborts
<1>. QED
    BY <1>5, <1>6, <1>7, <1>8, <1>9 DEF PlaybackNext

\* Only a direct user of the class sends with unary rpcs.
LEMMA StreamsOnly ==
    SenderEnvironment \/ OtherProducer \/ IngestNext \/ IngestKilled \/ AppNext => Streams
<1>1. UNCHANGED senderVars \/ AbandonSender \/ DeleteSender \/ FinishReturns => Streams
    BY DEF Streams, senderVars, AbandonSender, DeleteSender, FinishReturns
<1>2. \A p : SendPacket(p) => Streams
    BY DEF SendPacket, SendOk, SendFails, Streams, senderVars
<1>3. SinkStart \/ SinkStartFails => Streams
    BY <1>1 DEF SinkStart, SinkStartFails, NewSender, CreateSender, CreateSenderFails, Streams
<1>4. \A p : RenderBegins \/ RenderDrops \/ RenderSends(p) \/ RenderFails(p) => Streams
    BY <1>1, <1>2 DEF RenderBegins, RenderDrops, RenderSends, RenderFails
<1>5. \A n : StopSendsEos(n) \/ StopDeletesSender \/ StopReturns => Streams
    BY <1>1, <1>2 DEF StopSendsEos, StopDeletesSender, StopReturns
<1>6. SenderEnvironment \/ OtherProducer => Streams
    BY <1>1 DEF SenderEnvironment, ServerReceives, RpcBreaks, OtherProducer, Streams
<1>7. AppNext => Streams
    BY <1>1, <1>3, <1>4, <1>5 DEF AppNext, AppSets
<1>8. IngestExits => Streams
    BY <1>1 DEF IngestExits
<1>9. IngestBegins \/ IngestLaunchFails \/ IngestPlayFails \/ IngestKilled => Streams
    BY <1>1, <1>8 DEF IngestBegins, IngestLaunchFails, IngestPlayFails, IngestKilled
<1>10. IngestBuilds \/ IngestPlaying \/ SourceEnds \/ IngestPops \/ IngestReturns
          \/ IngestNextIteration => Streams
    BY <1>1 DEF IngestBuilds, IngestPlaying, SourceEnds, IngestPops, IngestReturns,
                IngestNextIteration
<1>11. IngestPlays \/ SourcePushes \/ IngestStops => Streams
    BY <1>3, <1>4, <1>5 DEF IngestPlays, SourcePushes, IngestStops
<1>12. Rendered => Streams
    BY <1>4 DEF Rendered
<1>. QED
    BY <1>6, <1>7, <1>9, <1>10, <1>11, <1>12 DEF IngestNext

\* A packet the element has sent is the last of what was sent.
LEMMA SentByElement ==
    ASSUME NEW p, IsSequence(sent), writer # "unary", SendPacket(p)
    PROVE  /\ ais_status' = "OK" =>
                  /\ Len(sent') = Len(sent) + 1 /\ sent'[Len(sent) + 1] = p
                  /\ \A i \in 1 .. Len(sent) : sent'[i] = sent[i]
           /\ ais_status' # "OK" => sent' = sent
<1>1. ais_status' = "OK" => sent' = Append(sent, p)
    BY DEF SendPacket, SendOk
<1>2. ais_status' # "OK" => sent' = sent
    BY DEF SendPacket, SendFails, senderVars
<1>. QED
    BY <1>1, <1>2, Appended

LEMMA PlayedStands == SourceStands /\ Played => Played'
BY DEF SourceStands, LaunchStands, Played, Counted, Ended, Last

LEMMA PlayedOn ==
    ASSUME LaunchTyped, Played, IsSequence(sent), writer # "unary", IngestNext \/ IngestKilled
    PROVE  LaunchTyped' /\ Played'
<1> DEFINE Goal == LaunchTyped' /\ Played'
<1>0. Len(sent) \in Nat /\ MaxBuffers \in Nat \ {0}
    BY Sequence, IngestAssumption
<1>1. UNCHANGED <<launchVars, sinkVars, left, senderVars>> => Goal
    BY LaunchCalls DEF LaunchStands, sinkVars, senderVars, Played, Counted, Ended, Last
<1>2. IngestExits => UNCHANGED sent
    BY DEF IngestExits, AbandonSender, senderVars
<1>3. CASE IngestBegins
    BY <1>2, <1>3, LaunchCalls
       DEF IngestBegins, LaunchStands, sinkVars, senderVars, Played, Counted, Ended, Last
<1>4. CASE IngestLaunchFails
    BY <1>4, LaunchCalls DEF IngestLaunchFails, sinkVars, Played
<1>5. CASE IngestBuilds
    BY <1>5, LaunchCalls DEF IngestBuilds, Played
<1>6. CASE IngestPlays
    <2>1. LaunchStands /\ Launch = "built" /\ sinkAt = "null" /\ UNCHANGED left
        BY <1>6, LaunchCalls DEF IngestPlays, ingestVars, Launch
    <2>2. sinkAt' = "started" /\ lost' = 0 /\ sent' = <<>>
        BY <1>6 DEF IngestPlays, SinkStart, NewSender, CreateSender
    <2>3. Bus = {} /\ left = MaxBuffers
        BY <2>1 DEF Played
    <2>4. Counted'
        BY <1>0, <2>1, <2>2, <2>3 DEF Counted, LaunchStands
    <2>. QED
        BY <2>1, <2>2, <2>3, <2>4 DEF Played, LaunchStands
<1>7. CASE IngestPlaying
    <2>1. /\ LaunchTyped' /\ Launch = "built" /\ Launch' = "playing" /\ Bus' = Bus
          /\ sinkAt = "started" /\ UNCHANGED <<sinkAt, left, lost, sent>>
        BY <1>7, LaunchCalls DEF IngestPlaying, ingestVars, sinkVars, senderVars
    <2>2. Counted
        BY <2>1 DEF Played
    <2>. QED
        BY <2>1, <2>2 DEF Played, Counted
<1>8. CASE IngestPlayFails
    BY <1>8, LaunchCalls DEF IngestPlayFails, SinkGone, Played
<1>9. CASE SourcePushes
    <2>1. /\ LaunchStands /\ Launch = "playing" /\ left > 0
          /\ sinkAt = "started" /\ sinkAt' = "rendering" /\ UNCHANGED <<left, lost, sent>>
        BY <1>9, LaunchCalls DEF SourcePushes, RenderBegins, ingestVars, senderVars, Launch
    <2>2. Counted
        BY <2>1 DEF Played
    <2>. QED
        BY <2>1, <2>2 DEF Played, Counted, LaunchStands
<1>10. CASE Rendered
    <2>1. /\ Launch \in {"playing", "stopping"} /\ left' = left - 1
          /\ sinkAt = "rendering" /\ sinkAt' = "started"
        BY <1>10 DEF Rendered, RenderDrops, RenderSends, RenderFails, Launch
    <2>2. Counted
        BY <2>1 DEF Played
    <2>3. left \in Nat /\ left' \in Nat /\ lost \in Nat
        BY <2>1, <2>2 DEF Counted
    <2>4. CASE RenderDrops /\ UNCHANGED launchVars
        <3>1. LaunchStands /\ sent' = sent /\ lost' = lost + 1
            BY <2>4, LaunchCalls DEF RenderDrops, senderVars
        <3>2. "ERROR" \notin Bus => Len(sent') + lost' + left' = MaxBuffers
            BY <1>0, <2>1, <2>2, <2>3, <3>1 DEF Counted
        <3>3. "ERROR" \notin Bus => "EOS" \notin Bus
            BY <2>1, <2>2 DEF Counted
        <3>4. Counted'
            BY <2>1, <2>2, <2>3, <3>1, <3>2, <3>3 DEF Counted, LaunchStands
        <3>. QED
            BY <2>1, <3>1, <3>4 DEF Played, LaunchStands
    <2>5. CASE RenderSends(Buffer) /\ UNCHANGED launchVars
        <3>1. LaunchStands /\ lost' = lost /\ SendPacket(Buffer) /\ ais_status' = "OK"
            BY <2>5, LaunchCalls DEF RenderSends
        <3>2. /\ Len(sent') = Len(sent) + 1 /\ sent'[Len(sent) + 1] = Buffer
              /\ \A i \in 1 .. Len(sent) : sent'[i] = sent[i]
            BY <3>1, SentByElement
        <3>3. "ERROR" \notin Bus => Len(sent') + lost' + left' = MaxBuffers
            BY <1>0, <2>1, <2>2, <2>3, <3>1, <3>2 DEF Counted
        <3>4. "ERROR" \notin Bus => "EOS" \notin Bus
            BY <2>1, <2>2 DEF Counted
        <3>5. "ERROR" \notin Bus => \A i \in 1 .. Len(sent') : ~IsEos(sent'[i])
            BY <1>0, <2>2, <3>2, SinkPackets DEF Counted, Buffer
        <3>6. Counted'
            BY <2>1, <2>3, <3>1, <3>3, <3>4, <3>5 DEF Counted, LaunchStands
        <3>. QED
            BY <2>1, <3>1, <3>6 DEF Played, LaunchStands
    <2>6. CASE RenderFails(Buffer) /\ Post("ingester_app", "ERROR") /\ UNCHANGED launch
        <3>1. LaunchTyped' /\ Launch' = Launch /\ Bus' = Bus \cup {"ERROR"} /\ lost' = lost
            BY <2>6, LaunchCalls DEF RenderFails
        <3>2. Counted'
            BY <2>1, <2>3, <3>1 DEF Counted
        <3>. QED
            BY <2>1, <3>1, <3>2 DEF Played
    <2>. QED
        BY <1>10, <2>4, <2>5, <2>6 DEF Rendered
<1>11. CASE SourceEnds
    <2>1. /\ Launch = "playing" /\ Bus = {} /\ sinkAt = "started"
          /\ UNCHANGED <<sinkAt, left, lost, sent>>
        BY <1>11 DEF SourceEnds, ingestVars, sinkVars, senderVars, Launch, Bus
    <2>2. Counted
        BY <2>1 DEF Played
    <2>3. CASE left = 0 /\ Post("ingester_app", "EOS") /\ UNCHANGED launch
        <3>1. LaunchTyped' /\ Launch' = Launch /\ Bus' = Bus \cup {"EOS"}
            BY <2>3, LaunchCalls
        <3>2. Counted'
            BY <2>1, <2>2, <2>3, <3>1 DEF Counted
        <3>. QED
            BY <2>1, <3>1, <3>2 DEF Played
    <2>4. CASE Post("ingester_app", "ERROR") /\ UNCHANGED launch
        <3>1. LaunchTyped' /\ Launch' = Launch /\ Bus' = Bus \cup {"ERROR"}
            BY <2>4, LaunchCalls
        <3>2. Counted'
            BY <2>1, <2>2, <3>1 DEF Counted
        <3>. QED
            BY <2>1, <3>1, <3>2 DEF Played
    <2>. QED
        BY <1>11, <2>3, <2>4 DEF SourceEnds
<1>12. CASE IngestPops
    <2>1. /\ LaunchTyped' /\ Launch = "playing" /\ Launch' = "stopping" /\ Bus' = Bus
          /\ UNCHANGED <<sinkAt, left, lost, sent>>
        BY <1>12, LaunchCalls DEF IngestPops, ingestVars, sinkVars, senderVars
    <2>2. sinkAt \in {"started", "rendering"} /\ Counted
        BY <2>1 DEF Played
    <2>. QED
        BY <2>1, <2>2 DEF Played, Counted
<1>13. CASE IngestStops
    <2>1. LaunchStands /\ Launch = "stopping" /\ UNCHANGED left
        BY <1>13, LaunchCalls DEF IngestStops, ingestVars, Launch
    <2>2. CASE StopSendsEos(MaxBuffers + 1)
        <3>1. /\ sinkAt = "started" /\ sinkAt' = "stopping" /\ lost' = lost
              /\ SendPacket(EosPacket(MaxBuffers + 1))
            BY <2>2 DEF StopSendsEos
        <3>2. Counted
            BY <2>1, <3>1 DEF Played
        <3>3. ASSUME Bus' = {"EOS"}, ais_status' = "OK" PROVE Ended'
            <4>1. /\ Len(sent') = Len(sent) + 1 /\ IsEos(sent'[Len(sent) + 1])
                  /\ \A i \in 1 .. Len(sent) : sent'[i] = sent[i]
                BY <3>1, <3>3, SentByElement, SinkPackets
            <4>2. left = 0 /\ Len(sent) + lost + left = MaxBuffers /\ lost \in Nat
                BY <2>1, <3>2, <3>3 DEF Counted, LaunchStands
            <4>3. Len(sent') - 1 = Len(sent) /\ sent' # <<>>
                BY <1>0, <4>1
            <4>4. Len(sent') - 1 + lost' = MaxBuffers
                BY <1>0, <3>1, <4>2, <4>3
            <4>5. \A i \in 1 .. Len(sent') - 1 : ~IsEos(sent'[i])
                BY <2>1, <3>2, <3>3, <4>1, <4>3 DEF Counted, LaunchStands
            <4>6. IsEos(Last(sent'))
                BY <4>1 DEF Last
            <4>. QED
                BY <4>3, <4>4, <4>5, <4>6 DEF Ended
        <3>. QED
            BY <2>1, <3>1, <3>3 DEF Played, LaunchStands
    <2>3. CASE StopDeletesSender \/ StopReturns
        <3>1. /\ sinkAt = "stopping" /\ sinkAt' \in {"stopping", "null"}
              /\ UNCHANGED <<lost, sent, ais_status>>
            BY <2>3 DEF StopDeletesSender, StopReturns, DeleteSender, FinishReturns, sinkVars
        <3>2. Bus = {"EOS"} /\ ais_status = "OK" => Ended
            BY <2>1, <3>1 DEF Played
        <3>. QED
            BY <2>1, <3>1, <3>2 DEF Played, LaunchStands, Ended, Last
    <2>. QED
        BY <1>13, <2>2, <2>3 DEF IngestStops
<1>14. CASE IngestReturns
    BY <1>14, LaunchCalls DEF IngestReturns, SinkGone, Played
<1>15. CASE IngestNextIteration
    <2>1. Launch = "returned" /\ Launch' = "idle" /\ LaunchTyped' /\ sinkAt' = sinkAt
        BY <1>15, LaunchCalls DEF IngestNextIteration, sinkVars, Launch
    <2>. QED
        BY <2>1 DEF Played
<1>16. CASE IngestKilled
    BY <1>16, LaunchCalls DEF IngestKilled, SinkGone, Played
<1>. QED
    BY <1>3, <1>4, <1>5, <1>6, <1>7, <1>8, <1>9, <1>10, <1>11, <1>12, <1>13, <1>14, <1>15, <1>16
       DEF IngestNext

LEMMA IngestRuns ==
    ASSUME ingAt = "idle" => Launch = "idle", IngestNext \/ IngestKilled
    PROVE  ingAt # "idle"
BY DEF Launch, IngestNext, IngestKilled, IngestBegins, IngestLaunchFails, IngestBuilds, IngestPlays,
       IngestPlaying, IngestPlayFails, SourcePushes, Rendered, SourceEnds, IngestPops, IngestStops,
       IngestReturns, IngestNextIteration, LaunchPlays, LaunchPops, LaunchReturns

LEMMA SourceInitial == Init => SourceInv
<1> SUFFICES ASSUME Init PROVE SourceInv
    OBVIOUS
<1>1. /\ writer = "none" /\ ingAt = "idle"
      /\ launch = [a \in Apps |-> "idle"] /\ bus = [a \in Apps |-> {}]
    BY DEF Init, SenderInit, IngestInit, LaunchInit
<1>2. "ingester_app" \in Apps
    BY DEF Apps
<1>. QED
    BY <1>1, <1>2 DEF SourceInv, Bus, Launch

LEMMA SourceSteps ==
    ASSUME LaunchTyped, [Next]_vars
    PROVE  /\ typed' = typed
           /\ \/ SourceStands /\ Streams
              \/ /\ LaunchStands /\ Streams
                 /\ ingAt = "idle" /\ UNCHANGED sinkAt
                 /\ \E c \in typed.commands : c.cmd = "ingest"
              \/ IngestNext \/ IngestKilled
              \/ "direct" \in typed.runs /\ LaunchStands /\ UNCHANGED ingAt
              \/ "sink" \in typed.runs /\ LaunchStands /\ Streams /\ UNCHANGED ingAt
<1>0. typed' = typed
    BY SenderSteps
<1>1. UNCHANGED launchVars => LaunchStands
    BY LaunchCalls
<1>2. UNCHANGED produceVars /\ LaunchStands => SourceStands /\ Streams
    BY DEF produceVars, sinkVars, ingestVars, senderVars, SourceStands, Streams
<1>3. CASE Cli
    <2> SUFFICES ASSUME NEW c \in typed.commands, CliExec(c)
                 PROVE  \/ SourceStands /\ Streams
                        \/ /\ LaunchStands /\ Streams
                           /\ ingAt = "idle" /\ UNCHANGED sinkAt
                           /\ \E d \in typed.commands : d.cmd = "ingest"
        BY <1>0, <1>3 DEF Cli
    <2>1. CASE UNCHANGED <<produceVars, launchVars>>
        BY <1>1, <1>2, <2>1
    <2>2. CASE c.cmd = "ingest" /\ ingAt = "idle" /\ UNCHANGED <<senderVars, sinkVars, launchVars>>
        BY <1>1, <2>2 DEF senderVars, sinkVars, Streams
    <2>. QED
        BY <2>1, <2>2 DEF CliExec
<1>4. CASE StreamStep
    <2>1. UNCHANGED <<sent, launchVars, sinkVars, ingestVars>> /\ Streams
        BY <1>4, StreamsOnly DEF StreamStep, SenderEnvironment, ServerReceives, RpcBreaks,
                                 OtherProducer, senderVars
    <2>. QED
        BY <1>0, <1>1, <2>1 DEF SourceStands, sinkVars, ingestVars
<1>5. CASE ConsumerStep \/ ConsumerEnvironment
    <2>1. LaunchStands
        BY <1>1, <1>5, OtherLaunch DEF ConsumerStep, ConsumerEnvironment, QueueNext
    <2>. QED
        BY <1>0, <1>2, <1>5, <2>1 DEF ConsumerStep, ConsumerEnvironment
<1>6. CASE DirectStep
    BY <1>0, <1>1, <1>6 DEF DirectStep, ingestVars
<1>7. CASE SinkStep
    BY <1>0, <1>1, <1>7, StreamsOnly DEF SinkStep, ingestVars
<1>8. CASE ManagerStep \/ ManagementServer \/ ReceiverStep \/ ChunkerStep \/ SrcStep \/ PacketStep
               \/ UNCHANGED vars
    BY <1>0, <1>1, <1>2, <1>8 DEF ManagerStep, ManagementServer, ReceiverStep, ChunkerStep, SrcStep,
                                  PacketStep, vars
<1>. QED
    BY <1>0, <1>3, <1>4, <1>5, <1>6, <1>7, <1>8 DEF Next, IngesterStep, Kill

LEMMA SourceKept ==
    SenderInv /\ SessionInv /\ SourceInv /\ [Next]_vars => SourceInv'
<1> SUFFICES ASSUME SenderInv, SessionInv, SourceInv, [Next]_vars PROVE SourceInv'
    OBVIOUS
<1>0. /\ LaunchTyped /\ typed' = typed /\ typed \in Scenarios
      /\ "direct" \notin typed.runs => writer # "unary"
      /\ ingAt = "idle" => Bus = {} /\ Launch = "idle"
      /\ ingAt # "idle" => typed.runs \cap {"direct", "sink"} = {} /\ Played
    BY SourceSteps DEF SourceInv, SenderInv, LaunchTyped
<1>1. CASE SourceStands /\ Streams
    <2>1. Played => Played'
        BY <1>1, PlayedStands
    <2>. QED
        BY <1>0, <1>1, <2>1 DEF SourceInv, SourceStands, LaunchStands, LaunchTyped, Streams
<1>2. CASE /\ LaunchStands /\ Streams
           /\ ingAt = "idle" /\ UNCHANGED sinkAt
           /\ \E c \in typed.commands : c.cmd = "ingest"
    <2>1. sinkAt = "none"
        BY <1>2 DEF SenderInv, IngestAsked
    <2>2. typed.runs \cap {"direct", "sink"} = {}
        BY <1>0, <1>2, ScenariosAssumption
    <2>3. Played'
        BY <1>0, <1>2, <2>1 DEF Played, LaunchStands
    <2>. QED
        BY <1>0, <1>2, <2>2, <2>3 DEF SourceInv, LaunchStands, LaunchTyped, Streams
<1>3. CASE IngestNext \/ IngestKilled
    <2>1. ingAt # "idle" /\ ingAt' # "idle"
        BY <1>0, <1>3, IngestRuns, IngestMoves
    <2>2. writer # "unary" /\ IsSequence(sent) /\ Streams
        BY <1>0, <1>3, <2>1, StreamsOnly DEF SessionInv
    <2>3. LaunchTyped' /\ Played'
        BY <1>0, <1>3, <2>1, <2>2, PlayedOn
    <2>. QED
        BY <1>0, <2>1, <2>2, <2>3 DEF SourceInv, LaunchTyped, Streams
<1>4. CASE "direct" \in typed.runs /\ LaunchStands /\ UNCHANGED ingAt
    BY <1>0, <1>4 DEF SourceInv, LaunchStands, LaunchTyped
<1>5. CASE "sink" \in typed.runs /\ LaunchStands /\ Streams /\ UNCHANGED ingAt
    BY <1>0, <1>5 DEF SourceInv, LaunchStands, LaunchTyped, Streams
<1>. QED
    BY <1>0, <1>1, <1>2, <1>3, <1>4, <1>5, SourceSteps

\* After a source that ingester_app has played to its end, the stream has every
\* buffer that no render of aissink dropped, in order, and then the EOS of its
\* stop: for any commands and any number of buffers.
THEOREM SourceDeliveredCorrect == Spec => []SourceDelivered
<1>1. SessionInv /\ SourceInv => SourceDelivered
    <2> SUFFICES ASSUME SessionInv, SourceInv, Bus = {"EOS"}, sinkAt = "null",
                        finish = "OK", ais_status = "OK"
                 PROVE  /\ InOrder /\ AllDelivered /\ sent # <<>> /\ IsEos(Last(sent))
                        /\ \A i \in 1 .. Len(sent) - 1 : ~IsEos(sent[i])
                        /\ Len(sent) - 1 + lost = MaxBuffers
        BY DEF SourceDelivered, Bus
    <2>1. Ended
        BY DEF SourceInv, Played
    <2>2. InOrder /\ AllDelivered
        BY <2>1 DEF Ended, SessionInv, Streaming
    <2>. QED
        BY <2>1, <2>2 DEF Ended
<1>. QED
    BY <1>1, SenderInitial, SenderKept, SessionInitial, SessionKept, SourceInitial, SourceKept,
       PTL DEF Spec
=============================================================================
