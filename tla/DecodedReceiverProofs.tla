------------------------ MODULE DecodedReceiverProofs ------------------------
(* Proofs about DecodedReceiver, for any sizes of its queues, any stream and *)
(* any decoder.                                                             *)
EXTENDS DecodedReceiver, SequenceTheorems, TLAPS

\* ImagesThenEos and HeaderOnce are not inductive.  What is in the decoder comes
\* behind what has arrived, and what is in hand behind what is in the decoder;
\* the same holds of the headers on their side road.
Rising(s) == \A j, k \in 1 .. Len(s) : j < k => s[j] < s[k]
FramesBelow(x)  == \A m \in 1 .. Len(Arrived) : Arrived[m].frame < x
HeadersBelow(x) == \A m \in 1 .. Len(Arrived) : Arrived[m].header < x

Decoding ==
    /\ Rising(decoder)
    /\ \A k \in 1 .. Len(decoder) : decoder[k] <= pulled /\ FramesBelow(decoder[k])
Heading ==
    /\ Rising(headers)
    /\ \A k \in 1 .. Len(headers) : headers[k] <= pulled /\ HeadersBelow(headers[k])
InHand ==
    /\ worker \in {"header", "feed"} /\ p # NoFrame =>
           p <= pulled /\ FramesBelow(p) /\ \A k \in 1 .. Len(decoder) : decoder[k] < p
    /\ worker = "header" =>
           HeadersBelow(p) /\ \A k \in 1 .. Len(headers) : headers[k] < p
Pulled == FramesBelow(pulled + 1) /\ HeadersBelow(pulled + 1)
Ends ==
    /\ worker = "initialize" => pulled = 0 /\ decoder = <<>>
    /\ worker \in {"eos", "done"} => decoder = <<>>
    /\ worker # "done" => \A m \in 1 .. Len(Arrived) : Arrived[m] # Eos

Sources == Decoding /\ Heading /\ InHand /\ Pulled /\ Ends
Orders  == ImagesThenEos /\ HeaderOnce

-----------------------------------------------------------------------------
(* Sequences.                                                               *)

LEMMA TailOf ==
    ASSUME NEW S, NEW s \in Seq(S), s # <<>>
    PROVE  /\ Head(s) \in S /\ Head(s) = s[1] /\ Tail(s) \in Seq(S)
           /\ Len(s) \in Nat /\ Len(s) >= 1 /\ Len(Tail(s)) = Len(s) - 1
           /\ \A k \in 1 .. Len(s) - 1 : Tail(s)[k] = s[k + 1] /\ k + 1 \in 1 .. Len(s)
BY HeadTailProperties, LenProperties, EmptySeq

LEMMA AppendOf ==
    ASSUME NEW S, NEW s \in Seq(S), NEW x \in S
    PROVE  /\ Append(s, x) \in Seq(S) /\ Len(s) \in Nat /\ Len(Append(s, x)) = Len(s) + 1
           /\ \A k \in 1 .. Len(s) : Append(s, x)[k] = s[k]
           /\ Append(s, x)[Len(s) + 1] = x
           /\ \A k \in 1 .. Len(s) + 1 : k \in 1 .. Len(s) \/ k = Len(s) + 1
BY AppendProperties, LenProperties

LEMMA RisingTail ==
    ASSUME NEW s \in Seq(Packets), s # <<>>, Rising(s)
    PROVE  /\ Rising(Tail(s))
           /\ \A k \in 1 .. Len(Tail(s)) : s[1] < Tail(s)[k]
<1>1. /\ Len(s) \in Nat /\ Len(s) >= 1 /\ Len(Tail(s)) = Len(s) - 1
      /\ \A k \in 1 .. Len(s) - 1 : Tail(s)[k] = s[k + 1] /\ k + 1 \in 1 .. Len(s)
    BY TailOf
<1>2. 1 \in 1 .. Len(s)
    BY <1>1
<1>3. \A k \in 1 .. Len(Tail(s)) : s[1] < Tail(s)[k]
    BY <1>1, <1>2 DEF Rising
<1>4. Rising(Tail(s))
    BY <1>1 DEF Rising
<1>. QED
    BY <1>3, <1>4

LEMMA RisingAppend ==
    ASSUME NEW s \in Seq(Packets), NEW x \in Packets, Rising(s),
           \A k \in 1 .. Len(s) : s[k] < x
    PROVE  Rising(Append(s, x))
<1>1. /\ Len(s) \in Nat /\ Len(Append(s, x)) = Len(s) + 1
      /\ \A k \in 1 .. Len(s) : Append(s, x)[k] = s[k]
      /\ Append(s, x)[Len(s) + 1] = x
      /\ \A k \in 1 .. Len(s) + 1 : k \in 1 .. Len(s) \/ k = Len(s) + 1
    BY AppendOf
<1>. QED
    BY <1>1 DEF Rising

-----------------------------------------------------------------------------
(* Types.                                                                   *)

LEMMA ImageParts ==
    ASSUME NEW x \in Images
    PROVE  /\ x.frame \in 0 .. LastPacket /\ x.header \in 0 .. LastPacket
           /\ x # Eos => x.frame \in Packets
BY BoundAssumption DEF Images, Eos, Packets, NoHeader

LEMMA DecodedType ==
    ASSUME TypeOK, decoder # <<>>
    PROVE  /\ DecodedImage \in Images /\ DecodedImage # Eos
           /\ DecodedImage.frame = decoder[1] /\ DecodedImage.header = FrontHeader
<1>1. Head(decoder) \in Packets /\ Head(decoder) = decoder[1]
    BY TailOf DEF TypeOK
<1>2. FrontHeader \in Packets \cup {NoHeader}
    BY TailOf DEF TypeOK, FrontHeader
<1>3. Head(decoder) # 0
    BY <1>1, BoundAssumption DEF Packets
<1>. QED
    BY <1>1, <1>2, <1>3 DEF DecodedImage, Images, Eos

LEMMA EosType == Eos \in Images
BY DEF Images

LEMMA InitType == Init => TypeOK
<1> SUFFICES ASSUME Init PROVE TypeOK
    OBVIOUS
<1>1. /\ headers \in Seq(Packets) /\ Len(headers) = 0 /\ decoder \in Seq(Packets)
      /\ images \in Seq(Images) /\ Len(images) = 0 /\ popped \in Seq(Images)
    BY EmptySeq DEF Init
<1>2. 0 <= header_capacity /\ 0 <= queue_size /\ 0 \in 0 .. LastPacket
    BY SizesAssumption, BoundAssumption
<1>. QED
    BY <1>1, <1>2 DEF Init, TypeOK

LEMMA FeedType ==
    ASSUME TypeOK, NEW frame \in Packets \cup {NoFrame}
    PROVE  FeedDecoder(frame) \in Seq(Packets)
BY AppendOf DEF FeedDecoder, TypeOK

LEMMA WorkerType == TypeOK /\ (InitializeFails \/ Worker) => TypeOK'
<1> SUFFICES ASSUME TypeOK, InitializeFails \/ Worker PROVE TypeOK'
    OBVIOUS
<1>1. CASE InitializeFails \/ CheckUseCount \/ PullEnds \/ FeedFails
    BY <1>1 DEF InitializeFails, CheckUseCount, PullEnds, FeedFails, TypeOK
<1>2. CASE Initialize
    <2>1. PICK isHead \in BOOLEAN : decoder' = FeedDecoder(FrameOf(1, isHead))
        BY <1>2 DEF Initialize
    <2>2. FrameOf(1, isHead) \in Packets \cup {NoFrame} /\ pulled + 1 \in 0 .. LastPacket
        BY <1>2, BoundAssumption DEF Initialize, FrameOf, Packets, TypeOK
    <2>3. decoder' \in Seq(Packets)
        BY <2>1, <2>2, FeedType
    <2>. QED
        BY <1>2, <2>2, <2>3 DEF Initialize, TypeOK
<1>3. CASE PullPacket
    <2>1. pulled + 1 \in 1 .. LastPacket
        BY <1>3, BoundAssumption DEF PullPacket, TypeOK
    <2>. QED
        BY <1>3, <2>1, BoundAssumption DEF PullPacket, FrameOf, Packets, NoFrame, TypeOK
<1>4. CASE PushHeader
    <2>1. p \in Packets
        BY <1>4 DEF PushHeader, TypeOK
    <2>2. headers' \in Seq(Packets) /\ Len(headers') = Len(headers) + 1
        BY <1>4, <2>1, AppendOf DEF PushHeader, TypeOK
    <2>3. Len(headers') <= header_capacity
        BY <1>4, <2>2, SizesAssumption, LenProperties DEF PushHeader, TypeOK
    <2>. QED
        BY <1>4, <2>2, <2>3 DEF PushHeader, TypeOK
<1>5. CASE Feed
    <2>1. decoder' \in Seq(Packets)
        BY <1>5, FeedType DEF Feed, TypeOK
    <2>. QED
        BY <1>5, <2>1 DEF Feed, TypeOK
<1>6. CASE SignalEOS
    <2>1. <<>> \in Seq(Packets)
        BY EmptySeq
    <2>. QED
        BY <1>6, <2>1 DEF SignalEOS, TypeOK
<1>7. CASE PushEosPacket
    <2>1. images' \in Seq(Images) /\ Len(images') = Len(images) + 1 /\ Len(images) \in Nat
        BY <1>7, EosType, AppendOf DEF PushEosPacket, TypeOK
    <2>2. Len(images') <= queue_size
        BY <1>7, <2>1, SizesAssumption DEF PushEosPacket, Full
    <2>. QED
        BY <1>7, <2>1, <2>2 DEF PushEosPacket, TypeOK
<1>. QED
    BY <1>1, <1>2, <1>3, <1>4, <1>5, <1>6, <1>7 DEF Worker

LEMMA OthersType == TypeOK /\ (PushImagePacket \/ LoseFrame \/ Pop \/ Release) => TypeOK'
<1> SUFFICES ASSUME TypeOK, PushImagePacket \/ LoseFrame \/ Pop \/ Release PROVE TypeOK'
    OBVIOUS
<1>1. CASE PushImagePacket
    <2>1. decoder # <<>> /\ decoder' \in Seq(Packets)
        BY <1>1, TailOf DEF PushImagePacket, TypeOK
    <2>2. headers' \in Seq(Packets) /\ Len(headers') <= header_capacity
        BY <1>1, TailOf, SizesAssumption DEF PushImagePacket, TypeOK
    <2>3. images' \in Seq(Images) /\ Len(images') <= queue_size
        <3>1. CASE Full
            BY <1>1, <3>1 DEF PushImagePacket, TypeOK
        <3>2. CASE ~Full
            BY <1>1, <2>1, <3>2, DecodedType, AppendOf, SizesAssumption
            DEF PushImagePacket, TypeOK, Full
        <3>. QED
            BY <3>1, <3>2
    <2>. QED
        BY <1>1, <2>1, <2>2, <2>3 DEF PushImagePacket, TypeOK
<1>2. CASE LoseFrame
    BY <1>2, TailOf DEF LoseFrame, TypeOK
<1>3. CASE Pop
    <2>1. /\ Head(images) \in Images /\ images' \in Seq(Images) /\ Len(images') <= queue_size
        BY <1>3, TailOf, SizesAssumption DEF Pop, TypeOK
    <2>2. popped' \in Seq(Images)
        BY <1>3, <2>1, AppendOf DEF Pop, TypeOK
    <2>. QED
        BY <1>3, <2>1, <2>2 DEF Pop, TypeOK
<1>4. CASE Release
    BY <1>4 DEF Release, TypeOK
<1>. QED
    BY <1>1, <1>2, <1>3, <1>4

LEMMA NextType == TypeOK /\ [Next]_vars => TypeOK'
<1>1. TypeOK /\ UNCHANGED vars => TypeOK'
    BY DEF vars, TypeOK
<1>. QED
    BY <1>1, WorkerType, OthersType DEF Next

\* Every variable stays in range and both queues within their sizes, for any
\* sizes and any stream.
THEOREM TypeCorrect == Spec => []TypeOK
BY InitType, NextType, PTL DEF Spec

-----------------------------------------------------------------------------
(* What has arrived.                                                        *)

LEMMA ArrivedType ==
    TypeOK => /\ Arrived \in Seq(Images) /\ Len(Arrived) \in Nat
              /\ DOMAIN Arrived = 1 .. Len(Arrived)
BY ConcatProperties, LenProperties DEF TypeOK, Arrived

LEMMA PartTypes ==
    ASSUME TypeOK, NEW m \in 1 .. Len(Arrived)
    PROVE  /\ Arrived[m] \in Images
           /\ Arrived[m].frame \in 0 .. LastPacket /\ Arrived[m].header \in 0 .. LastPacket
<1>1. Arrived \in [1 .. Len(Arrived) -> Images]
    BY ArrivedType, LenProperties
<1>. QED
    BY <1>1, ImageParts

\* Popping moves an image from one part to the other.
LEMMA PopKeeps == ASSUME TypeOK, Pop PROVE Arrived' = Arrived
<1>. images \in Seq(Images) /\ popped \in Seq(Images) /\ images # <<>>
    BY DEF TypeOK, Pop
<1>1. /\ Head(images) \in Images /\ Tail(images) \in Seq(Images)
      /\ <<Head(images)>> \in Seq(Images) /\ Len(<<Head(images)>>) = 1
      /\ <<Head(images)>>[1] = images[1]
    BY TailOf
<1>2. images = <<Head(images)>> \o Tail(images)
    <2>1. /\ <<Head(images)>> \o Tail(images) \in Seq(Images)
          /\ Len(<<Head(images)>> \o Tail(images)) = Len(images)
        BY <1>1, TailOf, ConcatProperties
    <2>2. \A i \in 1 .. Len(images) : images[i] = (<<Head(images)>> \o Tail(images))[i]
        BY <1>1, TailOf, ConcatProperties, HeadTailProperties, LenProperties
    <2>. QED
        BY <2>1, <2>2, SeqEqual
<1>3. popped \o (<<Head(images)>> \o Tail(images)) = (popped \o <<Head(images)>>) \o Tail(images)
    BY <1>1, ConcatAssociative
<1>4. popped \o <<Head(images)>> = Append(popped, Head(images))
    BY <1>1, AppendIsConcat
<1>. QED
    BY <1>2, <1>3, <1>4 DEF Pop, Arrived

\* An image, or the EOS, that is pushed is one entry more.
LEMMA PushExtends ==
    ASSUME TypeOK, NEW x \in Images, popped' = popped, images' = Append(images, x)
    PROVE  /\ Len(Arrived') = Len(Arrived) + 1
           /\ \A m \in 1 .. Len(Arrived) : Arrived'[m] = Arrived[m]
           /\ Arrived'[Len(Arrived) + 1] = x
           /\ \A m \in 1 .. Len(Arrived') : m \in 1 .. Len(Arrived) \/ m = Len(Arrived) + 1
<1>1. Append(images, x) = images \o <<x>> /\ <<x>> \in Seq(Images)
    BY AppendIsConcat DEF TypeOK
<1>2. Arrived' = Arrived \o <<x>>
    BY <1>1, ConcatAssociative DEF TypeOK, Arrived
<1>3. Arrived \o <<x>> = Append(Arrived, x)
    BY AppendIsConcat, ArrivedType
<1>. QED
    BY <1>2, <1>3, ArrivedType, AppendOf

\* The orders do not change when nothing arrives.
LEMMA OrdersKept ==
    ASSUME TypeOK, TypeOK', Orders, Arrived' = Arrived, pulled' >= pulled
    PROVE  Orders'
<1>1. \A n \in DOMAIN Arrived : Arrived[n].header <= pulled'
    <2>1. ASSUME NEW n \in DOMAIN Arrived PROVE Arrived[n].header <= pulled'
        <3>1. n \in 1 .. Len(Arrived) /\ Arrived[n].header <= pulled
            BY ArrivedType DEF Orders, HeaderOnce
        <3>2. Arrived[n].header \in 0 .. LastPacket
            BY <3>1, PartTypes
        <3>. QED
            BY <3>1, <3>2, BoundAssumption DEF TypeOK
    <2>. QED
        BY <2>1
<1>2. HeaderOnce'
    BY <1>1 DEF Orders, HeaderOnce
<1>3. ImagesThenEos'
    BY DEF Orders, ImagesThenEos
<1>. QED
    BY <1>2, <1>3 DEF Orders

\* An entry behind all others, with a header of its own or none.
LEMMA OrdersExtended ==
    ASSUME TypeOK, TypeOK', Orders, NEW x \in Images, popped' = popped,
           images' = Append(images, x), pulled' = pulled,
           \A m \in 1 .. Len(Arrived) : Arrived[m] # Eos,
           x = Eos \/ FramesBelow(x.frame),
           x.header = NoHeader \/ HeadersBelow(x.header),
           x.header <= pulled
    PROVE  Orders'
<1>1. /\ DOMAIN Arrived = 1 .. Len(Arrived) /\ DOMAIN Arrived' = 1 .. Len(Arrived')
      /\ Len(Arrived) \in Nat
    BY ArrivedType DEF Arrived
<1>2. /\ Len(Arrived') = Len(Arrived) + 1
      /\ \A m \in 1 .. Len(Arrived) : Arrived'[m] = Arrived[m]
      /\ Arrived'[Len(Arrived) + 1] = x
      /\ \A m \in 1 .. Len(Arrived') : m \in 1 .. Len(Arrived) \/ m = Len(Arrived) + 1
    BY PushExtends
<1>3. ASSUME NEW m \in 1 .. Len(Arrived'), NEW n \in 1 .. Len(Arrived'), m < n
      PROVE  /\ Arrived'[m] # Eos /\ (Arrived'[n] = Eos \/ Arrived'[m].frame < Arrived'[n].frame)
             /\ Arrived'[m].header # NoHeader /\ Arrived'[n].header # NoHeader
                => Arrived'[m].header < Arrived'[n].header
    <2>1. m \in 1 .. Len(Arrived) /\ Arrived'[m] = Arrived[m] /\ Arrived[m] # Eos
        BY <1>1, <1>2, <1>3
    <2>2. CASE n \in 1 .. Len(Arrived)
        BY <1>1, <1>2, <1>3, <2>1, <2>2 DEF Orders, ImagesThenEos, HeaderOnce
    <2>3. CASE n = Len(Arrived) + 1
        BY <1>2, <2>1, <2>3 DEF FramesBelow, HeadersBelow
    <2>. QED
        BY <1>2, <2>2, <2>3
<1>4. \A n \in 1 .. Len(Arrived') : Arrived'[n].header <= pulled
    BY <1>1, <1>2 DEF Orders, HeaderOnce
<1>. QED
    BY <1>1, <1>3, <1>4 DEF Orders, ImagesThenEos, HeaderOnce

-----------------------------------------------------------------------------
(* The sources of what arrives.                                             *)

LEMMA InitSources == Init => Sources /\ Orders
<1> SUFFICES ASSUME Init PROVE Sources /\ Orders
    OBVIOUS
<1>1. /\ images = <<>> /\ popped = <<>> /\ decoder = <<>> /\ headers = <<>>
      /\ worker = "initialize" /\ pulled = 0
    BY DEF Init
<1>2. Arrived = <<>> /\ Len(Arrived) = 0 /\ DOMAIN Arrived = 1 .. 0
    <2>1. Arrived \in Seq(Images) /\ Len(Arrived) = Len(popped) + Len(images)
        BY InitType, ConcatProperties DEF TypeOK, Arrived
    <2>2. Len(Arrived) = 0
        BY <1>1, <2>1, EmptySeq
    <2>. QED
        BY <2>1, <2>2, EmptySeq, LenProperties
<1>3. Len(decoder) = 0 /\ Len(headers) = 0
    BY <1>1, EmptySeq
<1>4. Sources
    BY <1>1, <1>2, <1>3
    DEF Sources, Decoding, Heading, InHand, Pulled, Ends, Rising, FramesBelow, HeadersBelow
<1>5. Orders
    BY <1>2 DEF Orders, ImagesThenEos, HeaderOnce
<1>. QED
    BY <1>4, <1>5

\* A frame or a header that leaves, with nothing arriving, leaves the rest behind
\* what has arrived.
LEMMA LeavingKeeps ==
    ASSUME NEW s \in Seq(Packets), NEW t \in Seq(Packets), Rising(s),
           t = s \/ (s # <<>> /\ t = Tail(s)) \/ t = <<>>
    PROVE  /\ Rising(t)
           /\ \A k \in 1 .. Len(t) : \E j \in 1 .. Len(s) : t[k] = s[j]
<1>1. CASE t = s
    BY <1>1
<1>2. CASE s # <<>> /\ t = Tail(s)
    BY <1>2, RisingTail, TailOf
<1>3. CASE t = <<>>
    BY <1>3, EmptySeq DEF Rising
<1>. QED
    BY <1>1, <1>2, <1>3

LEMMA SourcesKept ==
    ASSUME TypeOK, TypeOK', Sources, Arrived' = Arrived, pulled' = pulled, p' = p,
           headers' = headers \/ (headers # <<>> /\ headers' = Tail(headers)),
           decoder' = decoder \/ (decoder # <<>> /\ decoder' = Tail(decoder)) \/ decoder' = <<>>,
           worker' \in {"header", "feed", "initialize"} => worker' = worker,
           worker' \in {"eos", "done"} => decoder' = <<>>,
           worker = "done" => worker' = "done"
    PROVE  Sources'
<1>1. /\ Rising(decoder')
      /\ \A k \in 1 .. Len(decoder') : \E j \in 1 .. Len(decoder) : decoder'[k] = decoder[j]
    BY LeavingKeeps DEF TypeOK, Sources, Decoding
<1>2. /\ Rising(headers')
      /\ \A k \in 1 .. Len(headers') : \E j \in 1 .. Len(headers) : headers'[k] = headers[j]
    BY LeavingKeeps DEF TypeOK, Sources, Heading
<1>3. Decoding'
    BY <1>1 DEF Sources, Decoding, Rising, FramesBelow
<1>4. Heading'
    BY <1>2 DEF Sources, Heading, Rising, HeadersBelow
<1>5. InHand'
    BY <1>1, <1>2 DEF Sources, InHand, FramesBelow, HeadersBelow
<1>6. Pulled'
    BY DEF Sources, Pulled, FramesBelow, HeadersBelow
<1>7. Ends'
    BY DEF Sources, Ends
<1>. QED
    BY <1>3, <1>4, <1>5, <1>6, <1>7 DEF Sources

\* Steps in which nothing arrives and at most a frame or a header leaves.
LEMMA QuietSteps ==
    ASSUME TypeOK, TypeOK', Sources, Orders,
           \/ InitializeFails \/ CheckUseCount \/ PullEnds \/ FeedFails \/ SignalEOS
           \/ LoseFrame \/ Pop \/ Release \/ UNCHANGED vars
           \/ PushImagePacket /\ Full
    PROVE  Sources' /\ Orders'
<1>1. Arrived' = Arrived
    <2>1. CASE Pop
        BY <2>1, PopKeeps
    <2>2. CASE ~Pop
        BY <2>2 DEF InitializeFails, CheckUseCount, PullEnds, FeedFails, SignalEOS, LoseFrame,
                    Release, vars, PushImagePacket, Arrived
    <2>. QED
        BY <2>1, <2>2
<1>2. /\ pulled' = pulled /\ p' = p
      /\ headers' = headers \/ (headers # <<>> /\ headers' = Tail(headers))
      /\ decoder' = decoder \/ (decoder # <<>> /\ decoder' = Tail(decoder)) \/ decoder' = <<>>
      /\ worker' \in {"header", "feed", "initialize"} => worker' = worker
      /\ worker = "done" => worker' = "done"
    BY DEF InitializeFails, CheckUseCount, PullEnds, FeedFails, SignalEOS, LoseFrame, Pop,
           Release, vars, PushImagePacket
<1>3. worker' \in {"eos", "done"} => decoder' = <<>>
    BY DEF InitializeFails, CheckUseCount, PullEnds, FeedFails, SignalEOS, LoseFrame, Pop,
           Release, vars, PushImagePacket, Sources, Ends
<1>4. Sources'
    BY <1>1, <1>2, <1>3, SourcesKept
<1>5. pulled' >= pulled
    BY <1>2 DEF TypeOK
<1>6. Orders'
    BY <1>1, <1>5, OrdersKept
<1>. QED
    BY <1>4, <1>6

\* A frame behind all others enters the decoder.
LEMMA FeedKeeps ==
    ASSUME TypeOK, Rising(decoder), NEW x \in Packets \cup {NoFrame},
           x # NoFrame => \A k \in 1 .. Len(decoder) : decoder[k] < x
    PROVE  /\ Rising(FeedDecoder(x))
           /\ \A k \in 1 .. Len(FeedDecoder(x)) :
                 \/ \E j \in 1 .. Len(decoder) : FeedDecoder(x)[k] = decoder[j]
                 \/ x # NoFrame /\ FeedDecoder(x)[k] = x
<1>1. CASE x = NoFrame
    BY <1>1 DEF FeedDecoder
<1>2. CASE x # NoFrame
    <2>1. x \in Packets /\ FeedDecoder(x) = Append(decoder, x) /\ decoder \in Seq(Packets)
        BY <1>2 DEF FeedDecoder, TypeOK
    <2>2. Rising(FeedDecoder(x))
        BY <1>2, <2>1, RisingAppend
    <2>3. \A k \in 1 .. Len(Append(decoder, x)) :
              \/ \E j \in 1 .. Len(decoder) : Append(decoder, x)[k] = decoder[j]
              \/ Append(decoder, x)[k] = x
        BY <2>1, AppendOf
    <2>. QED
        BY <1>2, <2>1, <2>2, <2>3
<1>. QED
    BY <1>1, <1>2

LEMMA InitializeSources ==
    ASSUME TypeOK, TypeOK', Sources, Orders, Initialize PROVE Sources' /\ Orders'
<1>1. /\ Arrived' = Arrived /\ pulled = 0 /\ pulled' = 1 /\ decoder = <<>> /\ Len(decoder) = 0
      /\ headers' = headers /\ worker' = "check"
    BY EmptySeq DEF Initialize, Arrived, Sources, Ends
<1>2. PICK isHead \in BOOLEAN : decoder' = FeedDecoder(FrameOf(1, isHead))
    BY DEF Initialize
<1>3. /\ FrameOf(1, isHead) \in Packets \cup {NoFrame}
      /\ FrameOf(1, isHead) # NoFrame => FrameOf(1, isHead) = 1
    BY BoundAssumption DEF Initialize, FrameOf, Packets, TypeOK
<1>4. /\ Rising(decoder')
      /\ \A k \in 1 .. Len(decoder') : decoder'[k] = 1
    BY <1>1, <1>2, <1>3, FeedKeeps DEF Sources, Decoding
<1>5. Decoding'
    BY <1>1, <1>4 DEF Decoding, Sources, Pulled, Rising, FramesBelow
<1>6. Heading'
    <2>1. \A k \in 1 .. Len(headers) : headers[k] <= 0 => headers[k] <= 1
        <3>1. headers \in [1 .. Len(headers) -> 1 .. LastPacket]
            BY LenProperties DEF TypeOK, Packets
        <3>. QED
            BY <3>1, BoundAssumption
    <2>. QED
        BY <1>1, <2>1 DEF Heading, Sources, Rising, HeadersBelow
<1>7. Pulled'
    BY <1>1, PartTypes, BoundAssumption DEF Pulled, Sources, FramesBelow, HeadersBelow
<1>8. InHand' /\ Ends'
    BY <1>1 DEF InHand, Ends, Sources, Initialize
<1>9. Orders'
    BY <1>1, OrdersKept
<1>. QED
    BY <1>5, <1>6, <1>7, <1>8, <1>9 DEF Sources

LEMMA PullPacketSources ==
    ASSUME TypeOK, TypeOK', Sources, Orders, PullPacket PROVE Sources' /\ Orders'
<1>1. /\ Arrived' = Arrived /\ pulled \in Nat /\ pulled' = pulled + 1
      /\ decoder' = decoder /\ headers' = headers
      /\ decoder \in [1 .. Len(decoder) -> Packets] /\ headers \in [1 .. Len(headers) -> Packets]
    BY BoundAssumption, LenProperties DEF PullPacket, Arrived, TypeOK
<1>2. /\ p' = pulled + 1 \/ (p' = NoFrame /\ worker' = "feed")
      /\ worker' \in {"header", "feed"} /\ worker = "pull"
    BY DEF PullPacket, FrameOf
<1>3. Decoding'
    BY <1>1, BoundAssumption DEF Decoding, Sources, Rising, FramesBelow, Packets
<1>4. Heading'
    BY <1>1, BoundAssumption DEF Heading, Sources, Rising, HeadersBelow, Packets
<1>5. Pulled'
    BY <1>1, PartTypes, BoundAssumption DEF Pulled, Sources, FramesBelow, HeadersBelow
<1>6. InHand'
    <2>1. CASE p' = pulled + 1
        <3>1. \A k \in 1 .. Len(decoder) : decoder[k] < pulled + 1
            BY <1>1, BoundAssumption DEF Sources, Decoding, Packets
        <3>2. \A k \in 1 .. Len(headers) : headers[k] < pulled + 1
            BY <1>1, BoundAssumption DEF Sources, Heading, Packets
        <3>. QED
            BY <1>1, <2>1, <3>1, <3>2 DEF InHand, Sources, Pulled, FramesBelow, HeadersBelow
    <2>2. CASE p' = NoFrame /\ worker' = "feed"
        BY <2>2 DEF InHand
    <2>. QED
        BY <1>2, <2>1, <2>2
<1>7. Ends'
    BY <1>1, <1>2 DEF Ends, Sources
<1>8. Orders'
    BY <1>1, OrdersKept
<1>. QED
    BY <1>3, <1>4, <1>5, <1>6, <1>7, <1>8 DEF Sources

LEMMA PushHeaderSources ==
    ASSUME TypeOK, TypeOK', Sources, Orders, PushHeader PROVE Sources' /\ Orders'
<1>1. /\ Arrived' = Arrived /\ pulled' = pulled /\ p' = p /\ decoder' = decoder
      /\ headers' = Append(headers, p) /\ worker = "header" /\ worker' = "feed"
      /\ p \in Packets /\ p # NoFrame /\ headers \in Seq(Packets)
    BY DEF PushHeader, Arrived, TypeOK
<1>2. Rising(headers')
    BY <1>1, RisingAppend DEF Sources, Heading, InHand
<1>3. \A k \in 1 .. Len(headers') : headers'[k] <= pulled /\ HeadersBelow(headers'[k])
    BY <1>1, AppendOf DEF Sources, Heading, InHand, HeadersBelow
<1>4. Heading'
    BY <1>1, <1>2, <1>3 DEF Heading, Rising, HeadersBelow
<1>5. Decoding' /\ Pulled' /\ InHand' /\ Ends'
    BY <1>1 DEF Sources, Decoding, Pulled, InHand, Ends, Rising, FramesBelow, HeadersBelow
<1>6. pulled' >= pulled
    BY <1>1 DEF TypeOK
<1>7. Orders'
    BY <1>1, <1>6, OrdersKept
<1>. QED
    BY <1>4, <1>5, <1>7 DEF Sources

LEMMA FeedSources ==
    ASSUME TypeOK, TypeOK', Sources, Orders, Feed PROVE Sources' /\ Orders'
<1>1. /\ Arrived' = Arrived /\ pulled' = pulled /\ p' = p /\ headers' = headers
      /\ decoder' = FeedDecoder(p) /\ worker = "feed" /\ worker' = "check"
      /\ p \in Packets \cup {NoFrame}
    BY DEF Feed, Arrived, TypeOK
<1>2. p # NoFrame => \A k \in 1 .. Len(decoder) : decoder[k] < p
    BY <1>1 DEF Sources, InHand
<1>3. /\ Rising(decoder')
      /\ \A k \in 1 .. Len(decoder') :
            \/ \E j \in 1 .. Len(decoder) : decoder'[k] = decoder[j]
            \/ p # NoFrame /\ decoder'[k] = p
    BY <1>1, <1>2, FeedKeeps DEF Sources, Decoding
<1>4. p # NoFrame => p <= pulled /\ FramesBelow(p)
    BY <1>1 DEF Sources, InHand
<1>5. \A k \in 1 .. Len(decoder') : decoder'[k] <= pulled /\ FramesBelow(decoder'[k])
    BY <1>3, <1>4 DEF Sources, Decoding
<1>6. Decoding'
    BY <1>1, <1>3, <1>5 DEF Decoding, Rising, FramesBelow
<1>7. Heading' /\ Pulled' /\ InHand' /\ Ends'
    BY <1>1 DEF Sources, Heading, Pulled, InHand, Ends, Rising, FramesBelow, HeadersBelow
<1>8. pulled' >= pulled
    BY <1>1 DEF TypeOK
<1>9. Orders'
    BY <1>1, <1>8, OrdersKept
<1>. QED
    BY <1>6, <1>7, <1>9 DEF Sources

\* The EOS comes when the decoder is gone, and is behind all images.
LEMMA PushEosSources ==
    ASSUME TypeOK, TypeOK', Sources, Orders, PushEosPacket PROVE Sources' /\ Orders'
<1>1. /\ pulled' = pulled /\ p' = p /\ headers' = headers /\ decoder' = decoder
      /\ popped' = popped /\ images' = Append(images, Eos)
      /\ worker = "eos" /\ worker' = "done" /\ decoder = <<>> /\ Len(decoder) = 0
    BY EmptySeq DEF PushEosPacket, Sources, Ends
<1>2. /\ \A m \in 1 .. Len(Arrived) : Arrived'[m] = Arrived[m]
      /\ Arrived'[Len(Arrived) + 1] = Eos
      /\ \A m \in 1 .. Len(Arrived') : m \in 1 .. Len(Arrived) \/ m = Len(Arrived) + 1
    BY <1>1, EosType, PushExtends
<1>3. Eos.frame = 0 /\ Eos.header = NoHeader /\ NoHeader = 0
    BY DEF Eos, NoHeader
<1>4. \A x \in Nat \ {0} :
          /\ FramesBelow(x) => \A m \in 1 .. Len(Arrived') : Arrived'[m].frame < x
          /\ HeadersBelow(x) => \A m \in 1 .. Len(Arrived') : Arrived'[m].header < x
    BY <1>2, <1>3 DEF FramesBelow, HeadersBelow
<1>5. Decoding'
    BY <1>1 DEF Decoding, Rising
<1>6. Heading'
    <2>1. \A k \in 1 .. Len(headers) : headers[k] \in Nat \ {0}
        <3>1. headers \in Seq(Packets)
            BY DEF TypeOK
        <3>2. \A k \in 1 .. Len(headers) : headers[k] \in Packets
            BY <3>1, LenProperties
        <3>. QED
            BY <3>2 DEF Packets
    <2>. QED
        BY <1>1, <1>4, <2>1 DEF Heading, Sources, Rising, HeadersBelow
<1>7. Pulled'
    <2>1. pulled + 1 \in Nat \ {0}
        BY BoundAssumption DEF TypeOK
    <2>. QED
        BY <1>1, <1>4, <2>1 DEF Pulled, Sources, FramesBelow, HeadersBelow
<1>8. InHand' /\ Ends'
    BY <1>1 DEF InHand, Ends
<1>9. 0 <= pulled
    BY DEF TypeOK
<1>10. Orders'
    BY <1>1, <1>3, <1>9, EosType, OrdersExtended DEF Sources, Ends
<1>. QED
    BY <1>5, <1>6, <1>7, <1>8, <1>10 DEF Sources

\* An image is later than all that arrived, and earlier than what is in the
\* decoder or in hand behind it; so is the header it takes, among the headers.
LEMMA PushImageSources ==
    ASSUME TypeOK, TypeOK', Sources, Orders, PushImagePacket, ~Full PROVE Sources' /\ Orders'
<1>. DEFINE x == DecodedImage
<1>1. /\ pulled' = pulled /\ p' = p /\ worker' = worker /\ popped' = popped
      /\ images' = Append(images, x) /\ decoder # <<>> /\ decoder' = Tail(decoder)
      /\ headers' = IF headers = <<>> THEN headers ELSE Tail(headers)
    BY DEF PushImagePacket
<1>2. x \in Images /\ x # Eos /\ x.frame = decoder[1] /\ x.header = FrontHeader
    BY <1>1, DecodedType
<1>. HIDE DEF x
<1>3. /\ \A m \in 1 .. Len(Arrived) : Arrived'[m] = Arrived[m]
      /\ Arrived'[Len(Arrived) + 1] = x
      /\ \A m \in 1 .. Len(Arrived') : m \in 1 .. Len(Arrived) \/ m = Len(Arrived) + 1
    BY <1>1, <1>2, PushExtends
<1>4. /\ decoder[1] \in Packets /\ 1 \in 1 .. Len(decoder)
      /\ Rising(Tail(decoder))
      /\ \A k \in 1 .. Len(Tail(decoder)) :
            /\ decoder[1] < Tail(decoder)[k]
            /\ \E j \in 1 .. Len(decoder) : Tail(decoder)[k] = decoder[j]
    BY <1>1, RisingTail, TailOf, LeavingKeeps DEF Sources, Decoding, TypeOK
<1>5. decoder[1] <= pulled /\ FramesBelow(decoder[1])
    BY <1>4 DEF Sources, Decoding
<1>6. /\ (x.header = NoHeader /\ headers = <<>>) \/ (x.header = headers[1] /\ headers # <<>>)
      /\ headers # <<>> =>
            /\ 1 \in 1 .. Len(headers) /\ Rising(Tail(headers))
            /\ \A k \in 1 .. Len(Tail(headers)) :
                  /\ headers[1] < Tail(headers)[k]
                  /\ \E j \in 1 .. Len(headers) : Tail(headers)[k] = headers[j]
    <2>1. CASE headers = <<>>
        BY <1>2, <2>1 DEF FrontHeader
    <2>2. CASE headers # <<>>
        <3>1. headers \in Seq(Packets) /\ Rising(headers)
            BY DEF Sources, Heading, TypeOK
        <3>2. /\ Head(headers) = headers[1] /\ 1 \in 1 .. Len(headers)
              /\ Tail(headers) \in Seq(Packets)
            BY <2>2, <3>1, TailOf
        <3>3. /\ Rising(Tail(headers))
              /\ \A k \in 1 .. Len(Tail(headers)) : headers[1] < Tail(headers)[k]
            BY <2>2, <3>1, RisingTail
        <3>4. \A k \in 1 .. Len(Tail(headers)) :
                  \E j \in 1 .. Len(headers) : Tail(headers)[k] = headers[j]
            BY <2>2, <3>1, <3>2, LeavingKeeps
        <3>. QED
            BY <1>2, <2>2, <3>2, <3>3, <3>4 DEF FrontHeader
    <2>. QED
        BY <2>1, <2>2
<1>7. /\ x.header = NoHeader \/ HeadersBelow(x.header)
      /\ x.header <= pulled
    BY <1>6 DEF Sources, Heading, NoHeader, TypeOK
<1>8. /\ worker \notin {"initialize", "eos", "done"}
      /\ \A m \in 1 .. Len(Arrived) : Arrived[m] # Eos
    BY <1>1 DEF Sources, Ends
<1>9. Orders'
    BY <1>1, <1>2, <1>5, <1>7, <1>8, OrdersExtended
<1>10. Decoding'
    BY <1>1, <1>2, <1>3, <1>4 DEF Decoding, Sources, Rising, FramesBelow
<1>11. Heading'
    <2>1. CASE headers = <<>>
        BY <1>1, <2>1, EmptySeq DEF Heading, Rising
    <2>2. CASE headers # <<>>
        BY <1>1, <1>3, <1>6, <2>2 DEF Heading, Sources, Rising, HeadersBelow
    <2>. QED
        BY <2>1, <2>2
<1>12. Pulled'
    <2>1. x.frame < pulled + 1 /\ x.header < pulled + 1
        BY <1>2, <1>5, <1>7, ImageParts, BoundAssumption DEF TypeOK
    <2>. QED
        BY <1>1, <1>3, <2>1 DEF Pulled, Sources, FramesBelow, HeadersBelow
<1>13. InHand'
    <2>1. worker \in {"header", "feed"} /\ p # NoFrame =>
              /\ p <= pulled /\ FramesBelow(p)'
              /\ \A k \in 1 .. Len(Tail(decoder)) : Tail(decoder)[k] < p
        BY <1>1, <1>2, <1>3, <1>4 DEF InHand, Sources, FramesBelow
    <2>2. worker = "header" =>
              HeadersBelow(p)' /\ \A k \in 1 .. Len(headers') : headers'[k] < p
        <3>1. worker = "header" => x.header < p
            BY <1>6, BoundAssumption DEF InHand, Sources, NoHeader, TypeOK, Packets, NoFrame
        <3>2. \A k \in 1 .. Len(headers') :
                  \E j \in 1 .. Len(headers) : headers'[k] = headers[j]
            BY <1>1, <1>6
        <3>. QED
            BY <1>1, <1>3, <3>1, <3>2 DEF InHand, Sources, HeadersBelow
    <2>. QED
        BY <1>1, <2>1, <2>2 DEF InHand
<1>14. Ends'
    <2>1. \A m \in 1 .. Len(Arrived') : Arrived'[m] # Eos
        BY <1>2, <1>3, <1>8
    <2>. QED
        BY <1>1, <1>8, <2>1 DEF Ends
<1>. QED
    BY <1>9, <1>10, <1>11, <1>12, <1>13, <1>14 DEF Sources

IInv == TypeOK /\ Sources /\ Orders

LEMMA NextInv == IInv /\ [Next]_vars => IInv'
<1> SUFFICES ASSUME IInv, [Next]_vars PROVE IInv'
    OBVIOUS
<1>. TypeOK /\ TypeOK' /\ Sources /\ Orders
    BY NextType DEF IInv
<1>1. CASE Initialize
    BY <1>1, InitializeSources DEF IInv
<1>2. CASE PullPacket
    BY <1>2, PullPacketSources DEF IInv
<1>3. CASE PushHeader
    BY <1>3, PushHeaderSources DEF IInv
<1>4. CASE Feed
    BY <1>4, FeedSources DEF IInv
<1>5. CASE PushEosPacket
    BY <1>5, PushEosSources DEF IInv
<1>6. CASE PushImagePacket /\ ~Full
    BY <1>6, PushImageSources DEF IInv
<1>7. CASE \/ InitializeFails \/ CheckUseCount \/ PullEnds \/ FeedFails \/ SignalEOS
           \/ LoseFrame \/ Pop \/ Release \/ UNCHANGED vars
           \/ PushImagePacket /\ Full
    BY <1>7, QuietSteps DEF IInv
<1>. QED
    BY <1>1, <1>2, <1>3, <1>4, <1>5, <1>6, <1>7 DEF Next, Worker

LEMMA InvAlways == Spec => []IInv
<1>1. Init => IInv
    BY InitType, InitSources DEF IInv
<1>. QED
    BY <1>1, NextInv, PTL DEF Spec

\* The images of the decoder's thread arrive in the order of the stream, and the
\* EOS of the worker behind them all.
THEOREM ImagesThenEosCorrect == Spec => []ImagesThenEos
<1>1. IInv => ImagesThenEos
    BY DEF IInv, Orders
<1>. QED
    BY <1>1, InvAlways, PTL

\* No header is used twice or out of turn, however many frames the decoder loses.
THEOREM HeaderOnceCorrect == Spec => []HeaderOnce
<1>1. IInv => HeaderOnce
    BY DEF IInv, Orders
<1>. QED
    BY <1>1, InvAlways, PTL
=============================================================================
