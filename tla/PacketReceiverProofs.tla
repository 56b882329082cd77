------------------------ MODULE PacketReceiverProofs ------------------------
(* Proofs about PacketReceiver, for any stream, any offset and any number of *)
(* failures.                                                                *)
EXTENDS PacketReceiver, FiniteSetTheorems, SequenceTheorems, WellFoundedInduction, TLAPS

Present(m) == rpc[m].state # "none"
LastGot == got[Len(got)]

\* The subscriber has not come back from its first Receive.
FirstReceive == first_receiving_ \/ (call = "reading" /\ first)

\* Which rpcs there are, from Create to the end.
Created ==
    /\ phase # "ready" =>
           call = "idle" /\ got = <<>> /\ first_receiving_ /\ cursor = 0 /\ unary_packets_received_ = 0
    /\ phase = "new" => current_receiver_mode_ = "none" /\ \A m \in StreamingModes : ~Present(m)
    /\ phase = "replay_open" => mode = "Auto" /\ ~Present("StreamingReceive") /\ Present("Replay")

\* A streaming receiver that is ready has its current rpc.  It has another one
\* only in Auto mode, before its first packet: in its first Receive, or when the
\* current one has been finished.
Streams ==
    phase = "ready" /\ mode # "UnaryReceive" =>
        /\ current_receiver_mode_ \in StreamingModes /\ Present(current_receiver_mode_)
        /\ call # "idle" => ~first_receiving_
        /\ FirstReceive => got = <<>>
        /\ Present("StreamingReceive") /\ Present("Replay") =>
               /\ mode = "Auto" /\ current_receiver_mode_ = "StreamingReceive" /\ got = <<>>
               /\ FirstReceive \/ rpc["StreamingReceive"].state = "finished"
        /\ FirstReceive /\ mode = "Auto" => Present("StreamingReceive") /\ Present("Replay")

\* A polling receiver has no rpc, and does not read.
Polls ==
    phase = "ready" /\ mode = "UnaryReceive" =>
        /\ current_receiver_mode_ = "none" /\ \A m \in StreamingModes : ~Present(m)
        /\ call \notin {"reading", "aborted"}

\* Where the next packet comes from: behind the last one, or from the offset.
Positions ==
    /\ \A m \in StreamingModes : Present(m) => rpc[m].next >= 1
    /\ mode # "UnaryReceive" => ~lost
    /\ mode # "UnaryReceive" /\ got # <<>> => rpc[current_receiver_mode_].next = LastGot + 1
    /\ got = <<>> /\ reset => \A m \in StreamingModes : Present(m) => rpc[m].next = OffsetPosition
    /\ mode = "UnaryReceive" /\ ~lost /\ got # <<>> =>
           cursor = LastGot + 1 /\ unary_packets_received_ # 0
    /\ mode = "UnaryReceive" /\ ~lost /\ got = <<>> /\ reset /\ unary_packets_received_ # 0 =>
           cursor = OffsetPosition

Types == TypeOK /\ Created /\ Streams /\ Polls
            /\ \A m \in StreamingModes : Present(m) => rpc[m].next >= 1

-----------------------------------------------------------------------------
(* Helpers.                                                                 *)

LEMMA UnusedIs ==
    Unused("Replay") = "StreamingReceive" /\ Unused("StreamingReceive") = "Replay"
BY DEF Unused, StreamingModes

Below == {p \in Nat \X Nat : p[1] < p[2]}

LEMMA BelowWellFounded == IsWellFoundedOn(Below, Nat)
<1>1. OpToRel(<, Nat) = Below
    BY DEF OpToRel, Below
<1>. QED
    BY <1>1, NatLessThanWellFounded

\* A set of numbers up to b that is not empty has a largest one.
LEMMA LargestIs ==
    ASSUME NEW b \in Nat, NEW S \in SUBSET (1 .. b), S # {}
    PROVE  Max(S) \in S /\ \A x \in S : x <= Max(S)
<1> DEFINE T == {b - x : x \in S}
<1>1. T \subseteq Nat /\ T # {}
    <2>1. \A x \in S : x \in 1 .. b
        OBVIOUS
    <2>2. \A x \in 1 .. b : b - x \in Nat
        OBVIOUS
    <2>. QED
        BY <2>1, <2>2
<1>2. PICK t \in T : \A y \in T : ~(<<y, t>> \in Below)
    <2> HIDE DEF T
    <2>. QED
        BY <1>1, WFMin, BelowWellFounded
<1>3. PICK m \in S : t = b - m
    BY <1>2
<1>4. ASSUME NEW x \in S PROVE x <= m
    <2>1. b - x \in T /\ b - x \in Nat /\ b - m \in Nat
        OBVIOUS
    <2>2. ~(<<b - x, b - m>> \in Below)
        BY <2>1, <1>2, <1>3
    <2>3. ~(b - x < b - m)
        BY <2>1, <2>2 DEF Below
    <2>. QED
        BY <2>3
<1>. QED
    BY <1>4 DEF Max

\* What an offset stands for, whatever packets are critical.
OffsetMeans(k) ==
    \/ /\ k \in critical /\ k <= Seek
       /\ \A c \in critical : c <= Seek => c <= k
    \/ k = Seek /\ \A c \in critical : c > Seek

LEMMA OffsetPositionIs ==
    ASSUME critical \in SUBSET Packets
    PROVE  OffsetPosition \in Packets /\ OffsetPosition <= Seek /\ OffsetMeans(OffsetPosition)
<1>1. CriticalUpTo(Seek) \in SUBSET (1 .. LastPacket) /\ LastPacket \in Nat /\ Seek \in Packets
    BY BoundsAssumption DEF CriticalUpTo, Packets
<1>2. CASE CriticalUpTo(Seek) # {}
    <2>1. OffsetPosition = Max(CriticalUpTo(Seek))
        BY <1>2 DEF OffsetPosition
    <2>2. /\ OffsetPosition \in CriticalUpTo(Seek)
          /\ \A c \in CriticalUpTo(Seek) : c <= OffsetPosition
        BY <1>1, <1>2, <2>1, LargestIs
    <2>3. OffsetPosition \in critical /\ OffsetPosition <= Seek
        BY <2>2 DEF CriticalUpTo
    <2>4. \A c \in critical : c <= Seek => c <= OffsetPosition
        BY <2>2 DEF CriticalUpTo
    <2>. QED
        BY <2>3, <2>4 DEF OffsetMeans
<1>3. CASE CriticalUpTo(Seek) = {}
    <2>1. OffsetPosition = Seek
        BY <1>3 DEF OffsetPosition
    <2>2. \A c \in critical : ~(c <= Seek)
        BY <1>3 DEF CriticalUpTo
    <2>3. \A c \in critical : c > Seek
        BY <2>2, <1>1, BoundsAssumption DEF Packets
    <2>. QED
        BY <1>1, <2>1, <2>3, BoundsAssumption DEF OffsetMeans
<1>. QED
    BY <1>2, <1>3

LEMMA StartType ==
    ASSUME sent \in 0 .. LastPacket, critical \in SUBSET Packets, NEW withOffset \in BOOLEAN
    PROVE  StartPosition(withOffset) \in Packets
BY OffsetPositionIs, BoundsAssumption DEF StartPosition, Packets

LEMMA OpenType ==
    ASSUME TypeOK, NEW m
    PROVE  /\ OpenRpc(m) \in RpcEntries /\ OpenRpc(m).state = "open"
           /\ OpenRpc(m).next >= 1 /\ (reset => OpenRpc(m).next = OffsetPosition)
<1>1. StartPosition(reset) \in Packets
    BY StartType DEF TypeOK
<1>2. /\ OpenRpc(m) = [state |-> "open", next |-> StartPosition(reset), status |-> "OK"]
      /\ (reset => StartPosition(reset) = OffsetPosition)
    BY DEF OpenRpc, StartPosition
<1>3. StartPosition(reset) \in 0 .. LastPacket + 1 /\ StartPosition(reset) >= 1
    BY <1>1, BoundsAssumption DEF Packets
<1>. QED
    BY <1>2, <1>3 DEF RpcEntries, Statuses

LEMMA NoRpcType == NoRpc \in RpcEntries /\ NoRpc.state = "none"
BY BoundsAssumption DEF NoRpc, RpcEntries, Statuses

LEMMA ServedType ==
    TypeOK => ServedFrom \in 1 .. LastPacket + 1 /\ (SendsOffset => ServedFrom = OffsetPosition)
<1> SUFFICES ASSUME TypeOK PROVE ServedFrom \in 1 .. LastPacket + 1 /\ (SendsOffset => ServedFrom = OffsetPosition)
    OBVIOUS
<1>1. SendsOffset \in BOOLEAN
    BY DEF SendsOffset, TypeOK
<1>2. StartPosition(SendsOffset) \in Packets
    BY <1>1, StartType DEF TypeOK
<1>3. SendsOffset => StartPosition(SendsOffset) = OffsetPosition
    BY DEF StartPosition
<1>. QED
    BY <1>2, <1>3, BoundsAssumption DEF ServedFrom, Packets, TypeOK

\* One packet more: the last is the new one, and the first stays.
LEMMA GotMore ==
    ASSUME TypeOK, NEW x \in Packets
    PROVE  /\ Append(got, x) \in Seq(Packets) /\ Append(got, x) # <<>>
           /\ Append(got, x)[Len(Append(got, x))] = x
           /\ (IF got = <<>> THEN Append(got, x)[1] = x ELSE Append(got, x)[1] = got[1])
           /\ Len(Append(got, x)) = Len(got) + 1
           /\ \A n \in 1 .. Len(got) : Append(got, x)[n] = got[n]
<1>1. got \in Seq(Packets)
    BY DEF TypeOK
<1>2. /\ Append(got, x) \in Seq(Packets) /\ Len(Append(got, x)) = Len(got) + 1
      /\ \A n \in 1 .. Len(got) : Append(got, x)[n] = got[n]
      /\ Append(got, x)[Len(got) + 1] = x
    BY <1>1, AppendProperties
<1>3. Len(got) \in Nat /\ (got = <<>> <=> Len(got) = 0)
    BY <1>1, LenProperties, EmptySeq
<1>4. Append(got, x) # <<>>
    BY <1>2, <1>3, EmptySeq
<1>5. IF got = <<>> THEN Append(got, x)[1] = x ELSE Append(got, x)[1] = got[1]
    BY <1>2, <1>3
<1>. QED
    BY <1>2, <1>4, <1>5

-----------------------------------------------------------------------------
(* Types and rpcs.                                                          *)

LEMMA InitTypes == Init => Types
<1> SUFFICES ASSUME Init PROVE Types
    OBVIOUS
<1>1. rpc \in [StreamingModes -> RpcEntries] /\ \A m \in StreamingModes : ~Present(m)
    BY NoRpcType DEF Init, Present
<1>2. got \in Seq(Packets)
    BY EmptySeq DEF Init
<1>3. /\ sent \in 0 .. LastPacket /\ oldest \in 1 .. LastPacket + 1
      /\ cursor \in 0 .. LastPacket + 1
      /\ unary_packets_received_ \in Nat /\ failures \in 0 .. MaxFailures
    BY BoundsAssumption DEF Init
<1>4. TypeOK
    BY <1>1, <1>2, <1>3 DEF Init, TypeOK, Packets
<1>. QED
    BY <1>1, <1>4 DEF Init, Types, Created, Streams, Polls

LEMMA CreateTypes == Types /\ Create => Types'
<1> SUFFICES ASSUME Types, Create PROVE Types'
    OBVIOUS
<1>. USE DEF Types
<1>1. CASE CreateFails
    <2>1. rpc' \in [StreamingModes -> RpcEntries] /\ \A m \in StreamingModes : ~Present(m)'
        BY <1>1, NoRpcType DEF CreateFails, Present
    <2>. QED
        BY <1>1, <2>1 DEF CreateFails, TypeOK, Created, Streams, Polls, options, server, unary
<1>2. CASE InitializeReplayStream
    <2>1. rpc' = [rpc EXCEPT !["Replay"] = OpenRpc("Replay")]
        BY <1>2 DEF InitializeReplayStream
    <2>2. /\ rpc' \in [StreamingModes -> RpcEntries]
          /\ Present("Replay")' /\ ~Present("StreamingReceive")' /\ rpc'["Replay"].next >= 1
        BY <1>2, <2>1, OpenType
        DEF InitializeReplayStream, TypeOK, Created, Present, StreamingModes
    <2>. QED
        BY <1>2, <2>2
        DEF InitializeReplayStream, TypeOK, Created, Streams, Polls, FirstReceive,
            options, server, unary, StreamingModes
<1>3. CASE InitializeReceivePacket
    <2>1. rpc' = [rpc EXCEPT !["StreamingReceive"] = OpenRpc("StreamingReceive")]
        BY <1>3 DEF InitializeReceivePacket
    <2>2. /\ rpc' \in [StreamingModes -> RpcEntries]
          /\ Present("StreamingReceive")' /\ rpc'["StreamingReceive"].next >= 1
          /\ rpc'["Replay"] = rpc["Replay"] /\ (Present("Replay")' <=> Present("Replay"))
        BY <1>3, <2>1, OpenType DEF TypeOK, Present, StreamingModes
    <2>. QED
        BY <1>3, <2>2
        DEF InitializeReceivePacket, TypeOK, Created, Streams, Polls, FirstReceive,
            options, server, unary, StreamingModes
<1>4. CASE InitializeUnary
    <2>1. \A m \in StreamingModes : ~Present(m)'
        BY <1>4 DEF InitializeUnary, Created, Present
    <2>. QED
        BY <1>4, <2>1
        DEF InitializeUnary, TypeOK, Created, Streams, Polls, options, server, unary
<1>. QED
    BY <1>1, <1>2, <1>3, <1>4 DEF Create

\* A step that leaves the rpcs and what is received alone.
LEMMA ServerTypes == Types /\ Server => Types'
<1> SUFFICES ASSUME Types, Server PROVE Types'
    OBVIOUS
<1>. USE DEF Types
<1>1. CASE AppendPacket
    BY <1>1, BoundsAssumption
    DEF AppendPacket, TypeOK, Created, Streams, Polls, FirstReceive, Present, options, unary
<1>2. CASE Evict
    BY <1>2, BoundsAssumption
    DEF Evict, TypeOK, Created, Streams, Polls, FirstReceive, Present, options, unary
<1>3. CASE \E m \in StreamingModes, s \in Statuses : EndRpc(m, s)
    <2>1. PICK m \in StreamingModes, s \in Statuses : EndRpc(m, s)
        BY <1>3
    <2>2. /\ rpc[m].state = "open" /\ rpc[m] \in RpcEntries
          /\ rpc' = [rpc EXCEPT ![m] = [rpc[m] EXCEPT !.state = "ended", !.status = s]]
        BY <2>1 DEF EndRpc, TypeOK
    <2>3. /\ rpc' \in [StreamingModes -> RpcEntries]
          /\ \A k \in StreamingModes : rpc'[k].next = rpc[k].next /\ (Present(k)' <=> Present(k))
          /\ \A k \in StreamingModes : rpc[k].state = "finished" => rpc'[k].state = "finished"
        BY <2>2 DEF TypeOK, RpcEntries, Present
    <2>. QED
        BY <2>1, <2>3
        DEF EndRpc, TypeOK, Created, Streams, Polls, FirstReceive, options, server, unary,
            StreamingModes
<1>. QED
    BY <1>1, <1>2, <1>3 DEF Server

LEMMA CallbackTypes == Types /\ (Callback \/ RetryUnary) => Types'
BY DEF Callback, RetryUnary, Types, TypeOK, Created, Streams, Polls, FirstReceive, Present,
       options, Streaming, server, unary

LEMMA PollTypes ==
    Types /\ (UnaryFails \/ UnaryResponseLost \/ UnaryNotValid \/ UnaryPacket) => Types'
<1> SUFFICES ASSUME Types, UnaryFails \/ UnaryResponseLost \/ UnaryNotValid \/ UnaryPacket
             PROVE  Types'
    OBVIOUS
<1>. USE DEF Types
<1>1. /\ mode = "UnaryReceive" /\ phase = "ready" /\ UNCHANGED <<options, phase, Streaming, server>>
      /\ call' \in {"returned", "callback"} /\ empty' = empty
    BY DEF UnaryFails, UnaryResponseLost, UnaryNotValid, UnaryPacket, UnaryReady
<1>2. ServedFrom \in 1 .. LastPacket + 1
    BY ServedType
<1>3. /\ cursor' \in 0 .. LastPacket + 1 /\ failures' \in 0 .. MaxFailures
      /\ unary_packets_received_' \in Nat /\ lost' \in BOOLEAN
    <2>1. CASE UnaryFails
        BY <2>1, BoundsAssumption DEF UnaryFails, TypeOK
    <2>2. CASE UnaryResponseLost
        <3>1. ServedFrom + 1 \in 0 .. LastPacket + 1
            BY <2>2, <1>2, BoundsAssumption DEF UnaryResponseLost, TypeOK
        <3>2. (lost \/ ~SendsOffset) \in BOOLEAN
            BY DEF TypeOK, SendsOffset
        <3>. QED
            BY <2>2, <3>1, <3>2, BoundsAssumption DEF UnaryResponseLost, TypeOK
    <2>3. CASE UnaryNotValid
        BY <2>3, <1>2, BoundsAssumption DEF UnaryNotValid, TypeOK
    <2>4. CASE UnaryPacket
        BY <2>4, <1>2, BoundsAssumption DEF UnaryPacket, TypeOK
    <2>. QED
        BY <2>1, <2>2, <2>3, <2>4
<1>4. got' \in Seq(Packets)
    <2>1. CASE UnaryPacket
        <3>1. ServedFrom \in Packets
            BY <2>1, <1>2, BoundsAssumption DEF UnaryPacket, TypeOK, Packets
        <3>. QED
            BY <2>1, <3>1, GotMore DEF UnaryPacket
    <2>. QED
        BY <2>1 DEF UnaryFails, UnaryResponseLost, UnaryNotValid, TypeOK
<1>. QED
    BY <1>1, <1>3, <1>4
    DEF TypeOK, Created, Streams, Polls, Present, options, Streaming, server

LEMMA StreamingTypes ==
    ASSUME Types, StreamingReceive \/ ReadFails \/ FinishAgain
    PROVE  Types'
<1>. USE DEF Types
<1>1. CASE StreamingReceive
    <2>1. phase = "ready"
        BY <1>1 DEF StreamingReceive
    <2>. QED
        BY <1>1, <2>1
        DEF StreamingReceive, TypeOK, Created, Streams, Polls, FirstReceive, Present,
            options, server, unary
<1>2. CASE ReadFails
    <2>1. phase = "ready" /\ mode # "UnaryReceive" /\ current_receiver_mode_ \in StreamingModes
        BY <1>2 DEF ReadFails, Created, Streams, Polls, TypeOK
    <2>2. /\ rpc[current_receiver_mode_] \in RpcEntries
          /\ rpc' = [rpc EXCEPT ![current_receiver_mode_] =
                         [rpc[current_receiver_mode_] EXCEPT !.state = "finished"]]
        BY <1>2, <2>1 DEF ReadFails, TypeOK
    <2>3. /\ rpc' \in [StreamingModes -> RpcEntries]
          /\ \A k \in StreamingModes : rpc'[k].next = rpc[k].next
          /\ \A k \in StreamingModes \ {current_receiver_mode_} : Present(k)' <=> Present(k)
          /\ rpc'[current_receiver_mode_].state = "finished"
        <3> DEFINE c == current_receiver_mode_
                   entry == [rpc[c] EXCEPT !.state = "finished"]
        <3>1. entry \in RpcEntries /\ entry.state = "finished" /\ entry.next = rpc[c].next
            BY <2>2 DEF RpcEntries
        <3>2. rpc' = [rpc EXCEPT ![c] = entry] /\ rpc \in [StreamingModes -> RpcEntries]
            BY <2>2 DEF TypeOK
        <3> HIDE DEF entry
        <3>3. /\ rpc'[c] = entry /\ rpc' \in [StreamingModes -> RpcEntries]
              /\ \A k \in StreamingModes \ {c} : rpc'[k] = rpc[k]
            BY <2>1, <3>1, <3>2
        <3>. QED
            BY <3>1, <3>3 DEF Present
    <2>4. call' \in {"callback", "returned"} /\ empty' \in BOOLEAN
        BY <1>2 DEF ReadFails, TypeOK
    <2>5. /\ UNCHANGED <<options, phase, current_receiver_mode_, first_receiving_, first, got, server, unary>>
          /\ call = "reading"
        BY <1>2 DEF ReadFails
    <2>6. TypeOK'
        BY <2>3, <2>4, <2>5 DEF TypeOK, options, server, unary
    <2>7. Streams'
        BY <2>1, <2>3, <2>4, <2>5 DEF Streams, FirstReceive, StreamingModes, options, Present
    <2>8. Created' /\ Polls'
        BY <2>1, <2>5 DEF Created, Polls, options
    <2>9. \A k \in StreamingModes : Present(k)' => rpc'[k].next >= 1
        BY <2>1, <2>3 DEF Streams
    <2>. QED
        BY <2>6, <2>7, <2>8, <2>9
<1>3. CASE FinishAgain
    <2>1. phase = "ready" /\ mode # "UnaryReceive"
        BY <1>3 DEF FinishAgain, Created, Polls, TypeOK
    <2>. QED
        BY <1>3, <2>1
        DEF FinishAgain, TypeOK, Created, Streams, Polls, FirstReceive, Present,
            options, server, unary
<1>. QED
    BY <1>1, <1>2, <1>3

\* A Receive that is reading is one of a streaming receiver.
LEMMA Reading ==
    ASSUME Types, call = "reading"
    PROVE  /\ phase = "ready" /\ mode # "UnaryReceive" /\ ~first_receiving_
           /\ current_receiver_mode_ \in StreamingModes /\ Present(current_receiver_mode_)
           /\ rpc[current_receiver_mode_] \in RpcEntries
BY DEF Types, TypeOK, Created, Streams, Polls

\* The packet that is read comes from the current rpc, and no other is left.
LEMMA ReadResult ==
    ASSUME Types, ReadPacket
    PROVE  LET m == current_receiver_mode_
           IN  /\ rpc[m].next \in Packets /\ rpc'[m].next = rpc[m].next + 1
               /\ rpc' \in [StreamingModes -> RpcEntries]
               /\ rpc'[m].state # "none" /\ rpc'[Unused(m)].state = "none"
<1> DEFINE m == current_receiver_mode_
           n == rpc[m].next
           read == [rpc EXCEPT ![m].next = @ + 1]
           entry == [rpc[m] EXCEPT !.next = n + 1]
<1>1. /\ phase = "ready" /\ mode # "UnaryReceive" /\ ~first_receiving_
      /\ m \in StreamingModes /\ Present(m) /\ rpc[m] \in RpcEntries
    BY Reading DEF ReadPacket
<1>2. /\ rpc[m].state = "open" /\ n <= sent /\ sent \in 0 .. LastPacket
      /\ n \in 0 .. LastPacket + 1 /\ n >= 1
    BY <1>1 DEF ReadPacket, Readable, Types, TypeOK, RpcEntries
<1>3. n \in Packets /\ n + 1 \in 0 .. LastPacket + 1
    BY <1>2, BoundsAssumption DEF Packets
<1>4. entry \in RpcEntries /\ entry.state = "open" /\ entry.next = n + 1
    BY <1>1, <1>2, <1>3 DEF RpcEntries
<1>5. read = [rpc EXCEPT ![m] = entry] /\ rpc \in [StreamingModes -> RpcEntries]
    BY <1>1 DEF Types, TypeOK, RpcEntries
<1>6. Unused(m) \in StreamingModes /\ Unused(m) # m
    BY <1>1, UnusedIs DEF StreamingModes
<1>7. rpc' = IF first /\ mode = "Auto" THEN Dispose(read, m) ELSE read
    BY DEF ReadPacket
<1> HIDE DEF entry, read
<1>8. read[m] = entry /\ read \in [StreamingModes -> RpcEntries] /\ read[Unused(m)] = rpc[Unused(m)]
    BY <1>1, <1>4, <1>5, <1>6
<1>9. CASE first /\ mode = "Auto"
    <2>1. rpc' = [read EXCEPT ![Unused(m)] = NoRpc]
        BY <1>7, <1>9 DEF Dispose
    <2>2. rpc'[m] = entry /\ rpc'[Unused(m)] = NoRpc /\ rpc' \in [StreamingModes -> RpcEntries]
        BY <1>1, <1>6, <1>8, <2>1, NoRpcType
    <2>. QED
        BY <1>3, <1>4, <2>2, NoRpcType
<1>10. CASE ~(first /\ mode = "Auto")
    <2>1. rpc' = read
        BY <1>7, <1>10
    <2>2. ~Present(Unused(m))
        BY <1>1, <1>2, <1>6, <1>10, UnusedIs
        DEF ReadPacket, Types, Streams, FirstReceive, StreamingModes
    <2>. QED
        BY <1>3, <1>4, <1>8, <2>1, <2>2 DEF Present
<1>. QED
    BY <1>9, <1>10

LEMMA ReadTypes == Types /\ ReadPacket => Types'
<1> SUFFICES ASSUME Types, ReadPacket PROVE Types'
    OBVIOUS
<1> DEFINE m == current_receiver_mode_
<1>1. /\ phase = "ready" /\ mode # "UnaryReceive" /\ ~first_receiving_ /\ m \in StreamingModes
      /\ m \in {"Replay", "StreamingReceive"}
    BY Reading DEF ReadPacket, StreamingModes
<1>2. /\ rpc[m].next \in Packets /\ rpc'[m].next = rpc[m].next + 1
      /\ rpc' \in [StreamingModes -> RpcEntries]
      /\ rpc'[m].state # "none" /\ rpc'[Unused(m)].state = "none"
    BY ReadResult
<1>3. /\ got' = Append(got, rpc[m].next) /\ call' = "callback"
      /\ UNCHANGED <<options, phase, current_receiver_mode_, first_receiving_, first,
                     empty, server, unary>>
    BY DEF ReadPacket
<1>4. TypeOK'
    BY <1>2, <1>3, GotMore DEF Types, TypeOK, options, server, unary
<1>5. \A k \in StreamingModes : Present(k)' => k = m
    BY <1>1, <1>2, UnusedIs DEF StreamingModes, Present
<1>6. \A k \in StreamingModes : Present(k)' => rpc'[k].next >= 1
    BY <1>2, <1>5 DEF Packets
<1>7. Streams'
    BY <1>1, <1>2, <1>3, <1>5 DEF Streams, FirstReceive, StreamingModes, Present
<1>8. Created' /\ Polls'
    BY <1>1, <1>3 DEF Created, Polls, options
<1>. QED
    BY <1>4, <1>6, <1>7, <1>8 DEF Types

\* The switch of Auto: before the first packet, to an rpc that is there.
LEMMA SwitchResult ==
    ASSUME Types, SwitchToReplay
    PROVE  /\ phase = "ready" /\ mode = "Auto" /\ got = <<>> /\ Present("Replay")
           /\ rpc' \in [StreamingModes -> RpcEntries]
           /\ rpc'["Replay"] = rpc["Replay"] /\ ~Present("StreamingReceive")'
<1>1. phase = "ready" /\ mode = "Auto" /\ FirstReceive
    BY Reading DEF SwitchToReplay, SwitchTo, LiveOutOfRange, FirstReceive
<1>2. got = <<>> /\ Present("Replay")
    BY <1>1 DEF Types, Streams
<1>3. rpc' = [rpc EXCEPT !["StreamingReceive"] = NoRpc] /\ rpc \in [StreamingModes -> RpcEntries]
    BY UnusedIs DEF SwitchToReplay, SwitchTo, Dispose, Types, TypeOK
<1>. QED
    BY <1>1, <1>2, <1>3, NoRpcType DEF StreamingModes, Present

LEMMA SwitchTypes == Types /\ SwitchToReplay => Types'
<1> SUFFICES ASSUME Types, SwitchToReplay PROVE Types'
    OBVIOUS
<1>1. /\ phase = "ready" /\ mode = "Auto" /\ got = <<>> /\ Present("Replay")
      /\ rpc' \in [StreamingModes -> RpcEntries]
      /\ rpc'["Replay"] = rpc["Replay"] /\ ~Present("StreamingReceive")'
    BY SwitchResult
<1>2. /\ call = "reading" /\ current_receiver_mode_' = "Replay" /\ first' = FALSE
      /\ UNCHANGED <<options, phase, first_receiving_, call, got, empty, server, unary>>
    BY DEF SwitchToReplay, SwitchTo
<1>3. ~first_receiving_
    BY <1>2, Reading
<1>4. TypeOK'
    BY <1>1, <1>2 DEF Types, TypeOK, StreamingModes, options, server, unary
<1>5. Present("Replay")' /\ \A k \in StreamingModes : Present(k)' => rpc'[k].next >= 1
    BY <1>1 DEF Types, Present, StreamingModes
<1>6. Streams' /\ Created' /\ Polls'
    BY <1>1, <1>2, <1>3, <1>5
    DEF Streams, Created, Polls, FirstReceive, StreamingModes, options
<1>. QED
    BY <1>4, <1>5, <1>6 DEF Types

LEMMA NextTypes == Types /\ [Next]_vars => Types'
<1>1. Types /\ UNCHANGED vars => Types'
    BY DEF vars, options, server, unary, Types, TypeOK, Created, Streams, Polls, FirstReceive,
           Present
<1>. QED
    BY <1>1, CreateTypes, ServerTypes, CallbackTypes, PollTypes, StreamingTypes, ReadTypes,
       SwitchTypes DEF Next, Receive

\* Every variable of a receiver stays in its range, in every mode.
THEOREM TypeCorrect == Spec => []TypeOK
<1>1. Types => TypeOK
    BY DEF Types
<1>. QED
    BY <1>1, InitTypes, NextTypes, PTL DEF Spec

-----------------------------------------------------------------------------
(* The rpcs.                                                                *)

\* The rpc that StreamingReceive reads is in the map: neither the first packet
\* nor the switch of Auto disposes of the current one.
THEOREM ReaderPresentCorrect == Spec => []ReaderPresent
<1>1. Types => ReaderPresent
    BY Reading DEF ReaderPresent, Present
<1>. QED
    BY <1>1, InitTypes, NextTypes, PTL DEF Spec

LEMMA AtMostOne ==
    ASSUME NEW S \in SUBSET StreamingModes, ~(S = StreamingModes)
    PROVE  Cardinality(S) <= 1
<1>1. S = {} \/ S = {"StreamingReceive"} \/ S = {"Replay"}
    BY DEF StreamingModes
<1>2. Cardinality({}) = 0 /\ Cardinality({"StreamingReceive"}) = 1 /\ Cardinality({"Replay"}) = 1
    BY FS_EmptySet, FS_Singleton
<1>. QED
    BY <1>1, <1>2

LEMMA SettledOnOne == Types => OneRpcOnceSettled
<1> SUFFICES ASSUME Types,
                    \/ got # <<>>
                    \/ mode = "Auto" /\ current_receiver_mode_ = "Replay" /\ phase = "ready"
             PROVE  Cardinality({m \in StreamingModes : rpc[m].state # "none"}) <= 1
    BY DEF OneRpcOnceSettled
<1>1. ~(Present("StreamingReceive") /\ Present("Replay"))
    BY DEF Types, Created, Streams, Polls, StreamingModes
<1>2. {m \in StreamingModes : rpc[m].state # "none"} # StreamingModes
    BY <1>1 DEF Present, StreamingModes
<1>. QED
    BY <1>2, AtMostOne

\* A receiver that has a packet, or has switched, holds one rpc, in every mode
\* and for any stream.
THEOREM OneRpcOnceSettledCorrect == Spec => []OneRpcOnceSettled
BY SettledOnOne, InitTypes, NextTypes, PTL DEF Spec

LEMMA ModeKept == Types /\ [Next]_vars =>
                      [current_receiver_mode_' # current_receiver_mode_ => got = <<>>]_vars
<1> SUFFICES ASSUME Types, [Next]_vars, current_receiver_mode_' # current_receiver_mode_
             PROVE  got = <<>>
    OBVIOUS
<1>1. Create => got = <<>>
    BY DEF Create, CreateFails, InitializeReplayStream, InitializeReceivePacket,
           InitializeUnary, Types, Created
<1>2. Create \/ SwitchToReplay
    BY DEF vars, Next, Receive, StreamingReceive, ReadPacket, ReadFails, FinishAgain,
           UnaryFails, UnaryResponseLost, UnaryNotValid, UnaryPacket, Callback, RetryUnary,
           Server, AppendPacket, Evict, EndRpc, Streaming
<1>. QED
    BY <1>1, <1>2, SwitchResult

\* The mode changes only before the first packet, for any stream and any way in
\* which its rpcs end.
THEOREM NoLateSwitchCorrect == Spec => NoLateSwitch
BY InitTypes, NextTypes, ModeKept, PTL DEF Spec, NoLateSwitch

-----------------------------------------------------------------------------
(* What arrives.                                                            *)

Arrives == Positions /\ Gapless /\ OffsetHonoured

LEMMA OffsetKept == UNCHANGED critical => OffsetPosition' = OffsetPosition
BY DEF OffsetPosition, CriticalUpTo

\* A step that receives nothing and keeps the positions of the rpcs.
LEMMA ArrivesKept ==
    ASSUME Types, Arrives,
           UNCHANGED <<mode, reset, critical, current_receiver_mode_, got, cursor,
                       unary_packets_received_, lost>>,
           \A m \in StreamingModes : rpc'[m].next = rpc[m].next /\ (Present(m)' => Present(m))
    PROVE  Arrives'
<1>1. mode # "UnaryReceive" /\ got # <<>> => current_receiver_mode_ \in StreamingModes
    BY DEF Types, TypeOK, Created, Streams
<1>2. LastGot' = LastGot
    BY DEF LastGot
<1>3. Positions'
    BY <1>1, <1>2, OffsetKept DEF Arrives, Positions
<1>. QED
    BY <1>3 DEF Arrives, Gapless, OffsetHonoured

LEMMA InitArrives == Init => Arrives
<1> SUFFICES ASSUME Init PROVE Arrives
    OBVIOUS
<1>1. \A m \in StreamingModes : ~Present(m)
    BY NoRpcType DEF Init, Present
<1>2. Len(got) = 0 /\ got = <<>>
    BY EmptySeq DEF Init
<1>. QED
    BY <1>1, <1>2 DEF Init, Arrives, Positions, Gapless, OffsetHonoured

LEMMA CreateArrives == Types /\ Arrives /\ Create => Arrives'
<1> SUFFICES ASSUME Types, Arrives, Create PROVE Arrives'
    OBVIOUS
<1>1. /\ UNCHANGED <<mode, reset, critical, got, cursor, unary_packets_received_, lost>>
      /\ got = <<>> /\ unary_packets_received_ = 0
    BY DEF Create, CreateFails, InitializeReplayStream, InitializeReceivePacket,
           InitializeUnary, options, server, unary, Types, Created
<1>2. \A m \in StreamingModes : Present(m)' =>
          rpc'[m].next >= 1 /\ (reset => rpc'[m].next = OffsetPosition)
    <2>1. CASE CreateFails
        BY <2>1, NoRpcType DEF CreateFails, Present
    <2>2. CASE InitializeUnary
        BY <2>2 DEF InitializeUnary, Present, Arrives, Positions, Types, Created
    <2>3. CASE InitializeReplayStream
        <3>1. rpc' = [rpc EXCEPT !["Replay"] = OpenRpc("Replay")] /\ phase = "new"
            BY <2>3 DEF InitializeReplayStream
        <3>2. rpc \in [StreamingModes -> RpcEntries] /\ ~Present("StreamingReceive")
            BY <3>1 DEF Types, TypeOK, Created, StreamingModes
        <3>. QED
            BY <3>1, <3>2, OpenType DEF Types, Present, StreamingModes
    <2>4. CASE InitializeReceivePacket
        <3>1. /\ rpc' = [rpc EXCEPT !["StreamingReceive"] = OpenRpc("StreamingReceive")]
              /\ rpc \in [StreamingModes -> RpcEntries]
            BY <2>4 DEF InitializeReceivePacket, Types, TypeOK
        <3>2. rpc'["Replay"] = rpc["Replay"]
            BY <3>1 DEF StreamingModes
        <3>3. Present("Replay") =>
                  rpc["Replay"].next >= 1 /\ (reset => rpc["Replay"].next = OffsetPosition)
            BY <1>1 DEF Arrives, Positions, StreamingModes
        <3>. QED
            BY <3>1, <3>2, <3>3, OpenType DEF Types, Present, StreamingModes
    <2>. QED
        BY <2>1, <2>2, <2>3, <2>4 DEF Create
<1>3. Positions'
    BY <1>1, <1>2, OffsetKept DEF Arrives, Positions
<1>. QED
    BY <1>1, <1>3 DEF Arrives, Gapless, OffsetHonoured

\* A packet that follows the last one, or is the first.
LEMMA Follows ==
    ASSUME TypeOK, NEW x \in Packets, got' = Append(got, x), UNCHANGED <<reset, critical>>,
           Gapless, OffsetHonoured, lost' = lost,
           ~lost /\ got # <<>> => x = LastGot + 1,
           ~lost /\ got = <<>> /\ reset => x = OffsetPosition
    PROVE  /\ Gapless' /\ OffsetHonoured' /\ got' # <<>> /\ LastGot' = x
<1>1. /\ got' # <<>> /\ got'[Len(got')] = x /\ Len(got') = Len(got) + 1
      /\ IF got = <<>> THEN got'[1] = x ELSE got'[1] = got[1]
      /\ \A n \in 1 .. Len(got) : got'[n] = got[n]
    BY GotMore
<1>2. Len(got) \in Nat /\ (got = <<>> <=> Len(got) = 0)
    BY LenProperties, EmptySeq DEF TypeOK
<1>3. OffsetHonoured'
    <2>1. critical \in SUBSET Packets
        BY DEF TypeOK
    <2>2. OffsetMeans(OffsetPosition)
        BY <2>1, OffsetPositionIs
    <2>3. reset /\ ~lost => OffsetMeans(got'[1])
        BY <1>1, <2>2 DEF OffsetHonoured, OffsetMeans
    <2>. QED
        BY <2>3 DEF OffsetHonoured, OffsetMeans
<1>4. ASSUME ~lost, NEW n \in 2 .. Len(got') PROVE got'[n] = got'[n - 1] + 1
    <2>1. n \in Int /\ n >= 2 /\ n <= Len(got) + 1
        BY <1>1, <1>4
    <2>2. CASE n = Len(got) + 1
        <3>1. got # <<>> /\ n - 1 = Len(got) /\ Len(got) \in 1 .. Len(got) /\ n = Len(got')
            BY <1>1, <1>2, <2>1, <2>2
        <3>2. got'[n] = x /\ got'[n - 1] = got[Len(got)]
            BY <1>1, <3>1
        <3>. QED
            BY <1>4, <3>1, <3>2 DEF LastGot
    <2>3. CASE n # Len(got) + 1
        <3>1. n \in 2 .. Len(got) /\ n \in 1 .. Len(got) /\ n - 1 \in 1 .. Len(got)
            BY <1>2, <2>1, <2>3
        <3>2. got[n] = got[n - 1] + 1
            BY <1>4, <3>1 DEF Gapless
        <3>. QED
            BY <1>1, <3>1, <3>2
    <2>. QED
        BY <2>2, <2>3
<1>5. Gapless'
    BY <1>4 DEF Gapless
<1>. QED
    BY <1>1, <1>3, <1>5 DEF LastGot

LEMMA ReadArrives == Types /\ Arrives /\ ReadPacket => Arrives'
<1> SUFFICES ASSUME Types, Arrives, ReadPacket PROVE Arrives'
    OBVIOUS
<1> DEFINE m == current_receiver_mode_
<1>1. /\ mode # "UnaryReceive" /\ m \in StreamingModes /\ Present(m) /\ ~lost
    BY Reading DEF ReadPacket, Arrives, Positions
<1>2. /\ rpc[m].next \in Packets /\ rpc'[m].next = rpc[m].next + 1
      /\ rpc'[Unused(m)].state = "none"
    BY ReadResult
<1>3. /\ got' = Append(got, rpc[m].next)
      /\ UNCHANGED <<mode, reset, critical, current_receiver_mode_, lost>>
    BY DEF ReadPacket, options, server, unary
<1>4. /\ got # <<>> => rpc[m].next = LastGot + 1
      /\ got = <<>> /\ reset => rpc[m].next = OffsetPosition
    BY <1>1 DEF Arrives, Positions
<1>5. Gapless' /\ OffsetHonoured' /\ got' # <<>> /\ LastGot' = rpc[m].next
    BY <1>2, <1>3, <1>4, Follows DEF Types, Arrives
<1>6. \A k \in StreamingModes : Present(k)' => k = m
    BY <1>1, <1>2, UnusedIs DEF StreamingModes, Present
<1>7. Positions'
    BY <1>1, <1>2, <1>3, <1>5, <1>6 DEF Positions, Packets
<1>. QED
    BY <1>5, <1>7 DEF Arrives

LEMMA SwitchArrives == Types /\ Arrives /\ SwitchToReplay => Arrives'
<1> SUFFICES ASSUME Types, Arrives, SwitchToReplay PROVE Arrives'
    OBVIOUS
<1>1. /\ mode = "Auto" /\ got = <<>> /\ Present("Replay")
      /\ rpc'["Replay"] = rpc["Replay"] /\ ~Present("StreamingReceive")'
    BY SwitchResult
<1>2. UNCHANGED <<mode, reset, critical, got, cursor, unary_packets_received_, lost>>
    BY DEF SwitchToReplay, SwitchTo, options, server, unary
<1>3. Positions'
    BY <1>1, <1>2, OffsetKept DEF Arrives, Positions, Present, StreamingModes
<1>. QED
    BY <1>1, <1>2, <1>3 DEF Arrives, Gapless, OffsetHonoured

LEMMA PollArrives ==
    ASSUME Types, Arrives,
           UnaryFails \/ UnaryResponseLost \/ UnaryNotValid \/ UnaryPacket
    PROVE  Arrives'
<1>1. /\ mode = "UnaryReceive" /\ phase = "ready" /\ UNCHANGED <<mode, reset, critical>>
      /\ \A m \in StreamingModes : ~Present(m)' /\ ~Present(m)
    BY DEF UnaryFails, UnaryResponseLost, UnaryNotValid, UnaryPacket, UnaryReady, Streaming,
           options, server, Types, Polls, Present
<1>2. /\ ServedFrom \in 1 .. LastPacket + 1 /\ (SendsOffset => ServedFrom = OffsetPosition)
      /\ lost \in BOOLEAN /\ unary_packets_received_ \in Nat
      /\ OffsetPosition \in Nat /\ OffsetPosition # 0
    BY ServedType, OffsetPositionIs, BoundsAssumption DEF Types, TypeOK, Packets
<1>3. /\ ~lost /\ got # <<>> => ServedFrom = LastGot + 1 /\ ~SendsOffset
      /\ ~lost /\ got = <<>> /\ reset => ServedFrom = OffsetPosition
    <2>1. ASSUME ~lost, got # <<>> PROVE ServedFrom = LastGot + 1 /\ ~SendsOffset
        <3>1. cursor = LastGot + 1 /\ unary_packets_received_ # 0
            BY <1>1, <2>1 DEF Arrives, Positions
        <3>2. LastGot \in Packets
            <4>1. Len(got) \in 1 .. Len(got) /\ got \in [1 .. Len(got) -> Packets]
                BY <2>1, LenProperties, EmptySeq DEF Types, TypeOK
            <4>. QED
                BY <4>1 DEF LastGot
        <3>3. cursor # 0
            BY <3>1, <3>2 DEF Packets
        <3>. QED
            BY <3>1, <3>3 DEF ServedFrom, SendsOffset
    <2>2. ASSUME ~lost, got = <<>>, reset PROVE ServedFrom = OffsetPosition
        <3>1. CASE unary_packets_received_ = 0
            BY <2>2, <3>1, <1>2 DEF SendsOffset
        <3>2. CASE unary_packets_received_ # 0
            <4>1. cursor = OffsetPosition
                BY <1>1, <2>2, <3>2 DEF Arrives, Positions
            <4>. QED
                BY <1>2, <3>2, <4>1 DEF ServedFrom, SendsOffset
        <3>. QED
            BY <3>1, <3>2
    <2>. QED
        BY <2>1, <2>2
<1>4. CASE UnaryFails
    BY <1>1, <1>4, OffsetKept DEF UnaryFails, Arrives, Positions, Gapless, OffsetHonoured, LastGot
<1>5. CASE UnaryResponseLost
    <2>1. got' = got /\ unary_packets_received_' = unary_packets_received_ /\ lost' = (lost \/ ~SendsOffset)
        BY <1>5 DEF UnaryResponseLost
    <2>2. ~lost' => ~lost /\ got = <<>> /\ unary_packets_received_ = 0
        BY <1>3, <2>1 DEF SendsOffset
    <2>. QED
        BY <1>1, <2>1, <2>2 DEF Arrives, Positions, Gapless, OffsetHonoured, LastGot
<1>6. CASE UnaryNotValid
    <2>1. /\ got' = got /\ lost' = lost /\ cursor' = ServedFrom
          /\ unary_packets_received_' = unary_packets_received_ + 1
        BY <1>6 DEF UnaryNotValid
    <2>2. unary_packets_received_' # 0
        BY <1>2, <2>1
    <2>3. Positions'
        BY <1>1, <1>3, <2>1, <2>2, OffsetKept DEF Arrives, Positions, LastGot
    <2>. QED
        BY <1>1, <2>1, <2>3 DEF Arrives, Gapless, OffsetHonoured
<1>7. CASE UnaryPacket
    <2>1. /\ got' = Append(got, ServedFrom) /\ lost' = lost /\ cursor' = ServedFrom + 1
          /\ unary_packets_received_' = unary_packets_received_ + 1
          /\ ServedFrom <= sent
        BY <1>7 DEF UnaryPacket
    <2>2. ServedFrom \in Packets
        BY <1>2, <2>1, BoundsAssumption DEF Types, TypeOK, Packets
    <2>3. Gapless' /\ OffsetHonoured' /\ got' # <<>> /\ LastGot' = ServedFrom
        BY <1>1, <1>3, <2>1, <2>2, Follows DEF Types, Arrives
    <2>4. unary_packets_received_' # 0
        BY <1>2, <2>1
    <2>5. Positions'
        BY <1>1, <2>1, <2>3, <2>4 DEF Positions
    <2>. QED
        BY <2>3, <2>5 DEF Arrives
<1>. QED
    BY <1>4, <1>5, <1>6, <1>7

LEMMA OthersArrive ==
    ASSUME Types, Arrives,
           \/ StreamingReceive \/ ReadFails \/ FinishAgain \/ Callback \/ RetryUnary
           \/ Server \/ UNCHANGED vars
    PROVE  Arrives'
<1>1. UNCHANGED <<mode, reset, critical, current_receiver_mode_, got, cursor,
                  unary_packets_received_, lost>>
    BY DEF StreamingReceive, ReadFails, FinishAgain, Callback, RetryUnary, Server,
           AppendPacket, Evict, EndRpc, vars, Streaming, options, server, unary
<1>2. \A m \in StreamingModes : rpc'[m].next = rpc[m].next /\ (Present(m)' => Present(m))
    <2>1. rpc \in [StreamingModes -> RpcEntries]
        BY DEF Types, TypeOK
    <2>2. CASE rpc' = rpc
        BY <2>2 DEF Present
    <2>3. CASE ReadFails
        <3>1. current_receiver_mode_ \in StreamingModes /\ Present(current_receiver_mode_)
            BY <2>3, Reading DEF ReadFails
        <3>2. rpc' = [rpc EXCEPT ![current_receiver_mode_].state = "finished"]
            BY <2>3 DEF ReadFails
        <3>. QED
            BY <2>1, <3>1, <3>2 DEF Present, RpcEntries
    <2>4. CASE \E m \in StreamingModes, s \in Statuses : EndRpc(m, s)
        BY <2>1, <2>4 DEF EndRpc, Present, RpcEntries
    <2>. QED
        BY <2>2, <2>3, <2>4
        DEF StreamingReceive, FinishAgain, Callback, RetryUnary, Server, AppendPacket, Evict,
            vars, Streaming
<1>. QED
    BY <1>1, <1>2, ArrivesKept

LEMMA NextArrives == Types /\ Arrives /\ [Next]_vars => Arrives'
BY CreateArrives, ReadArrives, SwitchArrives, PollArrives, OthersArrive DEF Next, Receive

\* What arrives is a contiguous run of the stream, in every mode, across the
\* switch of Auto and failed polls, for any stream and any number of failures.
THEOREM GaplessCorrect == Spec => []Gapless
<1>1. Arrives => Gapless
    BY DEF Arrives
<1>. QED
    BY <1>1, InitTypes, InitArrives, NextTypes, NextArrives, PTL DEF Spec

\* A receiver with an offset begins at it, in every mode, for any offset.
THEOREM OffsetHonouredCorrect == Spec => []OffsetHonoured
<1>1. Arrives => OffsetHonoured
    BY DEF Arrives
<1>. QED
    BY <1>1, InitTypes, InitArrives, NextTypes, NextArrives, PTL DEF Spec
=============================================================================
