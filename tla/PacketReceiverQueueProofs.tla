---------------------- MODULE PacketReceiverQueueProofs ----------------------
(* Proofs about PacketReceiverQueue, for any capacity and any stream.       *)
EXTENDS PacketReceiverQueue, SequenceTheorems, TLAPS

\* OrderedGapless is not inductive.  The worker may put the EOS only because it
\* holds no packet then, and no packet is put after it because only the dead
\* worker has put one.
Running ==
    /\ worker \in {"create", "receive", "eos"} => p = Nothing
    /\ worker # "done" => popped \o queue \o Held = Returned
    /\ worker = "eos" => ~ended

IInv == TypeOK /\ Len(queue) <= Capacity /\ Running /\ OrderedGapless

-----------------------------------------------------------------------------
(* Sequences.                                                               *)

LEMMA HeldType == TypeOK => Held \in Seq(Elements) /\ Len(Held) \in Nat /\ Len(Held) <= 1
<1>1. CASE p = Nothing
    BY <1>1, EmptySeq DEF Held
<1>2. CASE p # Nothing
    <2>1. TypeOK => p \in Elements
        BY <1>2, StreamAssumption DEF TypeOK, Elements, Packets
    <2>. QED
        BY <1>2, <2>1 DEF Held
<1>. QED
    BY <1>1, <1>2

LEMMA ReceivedType ==
    TypeOK => Received \in Seq(Elements) /\ Len(Received) = received
<1> SUFFICES ASSUME TypeOK PROVE Received \in Seq(Elements) /\ Len(Received) = received
    OBVIOUS
<1>1. Received \in [1 .. received -> Elements] /\ received \in Nat
    BY StreamAssumption DEF TypeOK, Received, Elements, Packets
<1>. QED
    BY <1>1, SeqDef, LenProperties

LEMMA ReturnedType ==
    TypeOK => /\ Returned \in Seq(Elements) /\ Len(Returned) \in Nat
              /\ Len(Returned) >= received
              /\ Append(Received, Empty) = Received \o <<Empty>>
<1> SUFFICES ASSUME TypeOK
             PROVE  /\ Returned \in Seq(Elements) /\ Len(Returned) \in Nat
                    /\ Len(Returned) >= received
                    /\ Append(Received, Empty) = Received \o <<Empty>>
    OBVIOUS
<1>1. Received \in Seq(Elements) /\ Len(Received) = received /\ received \in Nat
    BY ReceivedType, StreamAssumption DEF TypeOK
<1>2. Empty \in Elements
    BY DEF Elements
<1>3. /\ Append(Received, Empty) \in Seq(Elements)
      /\ Len(Append(Received, Empty)) = received + 1
      /\ Append(Received, Empty) = Received \o <<Empty>>
    BY <1>1, <1>2, AppendProperties, AppendIsConcat
<1>. QED
    BY <1>1, <1>3 DEF Returned

\* One packet more is one entry more.
LEMMA ReceivedNext ==
    ASSUME TypeOK, received < LastPacket
    PROVE  [n \in 1 .. received + 1 |-> n] = Received \o <<received + 1>>
<1> DEFINE next == [n \in 1 .. received + 1 |-> n]
           last == <<received + 1>>
<1>1. received \in Nat /\ received + 1 \in Elements
    BY StreamAssumption DEF TypeOK, Elements, Packets
<1>2. next \in [1 .. received + 1 -> Elements]
    BY <1>1, StreamAssumption DEF Elements, TypeOK, Packets
<1>3. next \in Seq(Elements) /\ Len(next) = received + 1
    <2>1. next \in Seq(Elements)
        BY <1>1, <1>2, SeqDef
    <2>. QED
        BY <1>1, <1>2, <2>1, LenProperties
<1>4. last \in Seq(Elements) /\ Len(last) = 1 /\ last[1] = received + 1
    BY <1>1
<1>5. /\ Received \o last \in Seq(Elements)
      /\ Len(Received \o last) = received + 1
      /\ \A i \in 1 .. received + 1 :
            (Received \o last)[i] = IF i <= received THEN Received[i] ELSE last[i - received]
    BY <1>1, <1>4, ReceivedType, ConcatProperties
<1>6. \A i \in 1 .. received + 1 : next[i] = (Received \o last)[i]
    BY <1>1, <1>4, <1>5 DEF Received
<1> HIDE DEF next, last
<1>7. next = Received \o last
    BY <1>3, <1>5, <1>6, SeqEqual
<1>. QED
    BY <1>7 DEF next, last

\* Popping moves the head from one part to the other.
LEMMA TakeKeepsOrder ==
    ASSUME TypeOK, queue # <<>>
    PROVE  Append(popped, Head(queue)) \o Tail(queue) = popped \o queue
<1>. queue \in Seq(Elements) /\ popped \in Seq(Elements)
    BY DEF TypeOK, Elements
<1>1. Head(queue) \in Elements /\ Tail(queue) \in Seq(Elements) /\ <<Head(queue)>> \in Seq(Elements)
    BY HeadTailProperties
<1>2. queue = <<Head(queue)>> \o Tail(queue)
    <2>1. /\ <<Head(queue)>> \o Tail(queue) \in Seq(Elements)
          /\ Len(<<Head(queue)>> \o Tail(queue)) = Len(queue)
        BY <1>1, ConcatProperties, HeadTailProperties, LenProperties
    <2>2. \A i \in 1 .. Len(queue) : queue[i] = (<<Head(queue)>> \o Tail(queue))[i]
        BY <1>1, ConcatProperties, HeadTailProperties, LenProperties
    <2>. QED
        BY <2>1, <2>2, SeqEqual
<1>3. popped \o (<<Head(queue)>> \o Tail(queue)) = (popped \o <<Head(queue)>>) \o Tail(queue)
    BY <1>1, ConcatAssociative
<1>4. popped \o <<Head(queue)>> = Append(popped, Head(queue))
    BY <1>1, AppendIsConcat
<1>. QED
    BY <1>2, <1>3, <1>4

\* Putting extends the whole by one.
LEMMA PutExtends ==
    ASSUME TypeOK, NEW x \in Elements
    PROVE  popped \o Append(queue, x) = (popped \o queue) \o <<x>>
<1>1. Append(queue, x) = queue \o <<x>> /\ <<x>> \in Seq(Elements)
    BY AppendIsConcat DEF TypeOK, Elements
<1>. QED
    BY <1>1, ConcatAssociative DEF TypeOK, Elements

-----------------------------------------------------------------------------
(* Types.                                                                   *)

LEMMA InitType == Init => TypeOK
<1> SUFFICES ASSUME Init PROVE TypeOK
    OBVIOUS
<1>1. queue \in Seq(Elements) /\ popped \in Seq(Elements)
    BY EmptySeq DEF Init, Fifo!Init
<1>2. received \in 0 .. LastPacket /\ p = Nothing
    BY StreamAssumption DEF Init
<1>. QED
    BY <1>1, <1>2 DEF Init, TypeOK

LEMMA TakeType ==
    ASSUME TypeOK, Fifo!Take
    PROVE  queue' \in Seq(Elements) /\ popped' \in Seq(Elements)
BY HeadTailProperties, AppendProperties DEF TypeOK, Fifo!Take

LEMMA PutType ==
    ASSUME TypeOK, NEW x \in Elements, Fifo!Put(x)
    PROVE  queue' \in Seq(Elements) /\ popped' \in Seq(Elements)
BY AppendProperties DEF TypeOK, Fifo!Put

LEMMA NextType == TypeOK /\ [Next]_vars => TypeOK'
<1> SUFFICES ASSUME TypeOK, [Next]_vars PROVE TypeOK'
    OBVIOUS
<1>1. CASE UNCHANGED vars
    BY <1>1 DEF vars, TypeOK
<1>2. CASE CreateFails \/ StartWorker
    BY <1>2 DEF CreateFails, StartWorker, TypeOK, Nothing
<1>3. CASE Receive
    <2>1. CASE ReceivePacket
        <3>1. received + 1 \in Packets /\ received + 1 \in 0 .. LastPacket
            BY <2>1, StreamAssumption DEF ReceivePacket, TypeOK, Packets
        <3>2. received + 1 # Nothing
            BY <3>1 DEF Packets, Nothing
        <3>. QED
            BY <2>1, <3>1, <3>2 DEF ReceivePacket, TypeOK
    <2>2. CASE ReceiveNothing
        BY <2>2 DEF ReceiveNothing, TypeOK, Nothing, Empty
    <2>3. CASE ReceiveFails
        BY <2>3 DEF ReceiveFails, TypeOK
    <2>. QED
        BY <1>3, <2>1, <2>2, <2>3 DEF Receive
<1>4. CASE CheckUseCount \/ FinishAgain \/ TryPushTimesOut
    BY <1>4 DEF CheckUseCount, FinishAgain, TryPushTimesOut, TypeOK, Packets, Nothing
<1>5. CASE EmplaceEos
    <2>1. Eos \in Elements
        BY DEF Elements
    <2>. QED
        BY <1>5, <2>1, PutType DEF EmplaceEos, TypeOK
<1>6. CASE TryPush
    <2>1. p \in Elements
        BY <1>6 DEF TryPush, TypeOK, Elements
    <2>. QED
        BY <1>6, <2>1, PutType DEF TryPush, TypeOK, Nothing
<1>7. CASE Consumer \/ Cancelled
    BY <1>7, TakeType
    DEF Consumer, TryPop, TryPopTimesOut, CallbackReturns, Cancelled, TypeOK
<1>. QED
    BY <1>1, <1>2, <1>3, <1>4, <1>5, <1>6, <1>7 DEF Next, Worker

\* Every variable stays in its range, for any capacity and any stream.
THEOREM TypeCorrect == Spec => []TypeOK
BY InitType, NextType, PTL DEF Spec

-----------------------------------------------------------------------------
(* Order, and what is in flight.                                            *)

LEMMA InitOrder == Init => IInv
<1> SUFFICES ASSUME Init PROVE IInv
    OBVIOUS
<1>1. popped \o queue \o Held = <<>> /\ Len(queue) = 0
    BY EmptySeq DEF Init, Fifo!Init, Held
<1>2. Returned = <<>>
    BY InitType, ReceivedType, EmptySeq DEF Init, Returned
<1>. QED
    BY <1>1, <1>2, InitType, CapacityAssumption
    DEF Init, IInv, Running, OrderedGapless, TypeOK

LEMMA TakeOrder ==
    ASSUME IInv, Fifo!Take, UNCHANGED <<p, received, ended, worker>>
    PROVE  Len(queue)' <= Capacity /\ Running' /\ OrderedGapless'
<1>1. popped' \o queue' = popped \o queue
    BY TakeKeepsOrder DEF IInv, Fifo!Take
<1>2. Len(queue') <= Capacity
    BY HeadTailProperties, LenProperties, CapacityAssumption DEF IInv, TypeOK, Fifo!Take
<1>. QED
    BY <1>1, <1>2 DEF IInv, Running, OrderedGapless, Held, Received, Returned

LEMMA NextOrder == IInv /\ [Next]_vars => IInv'
<1> SUFFICES ASSUME IInv, [Next]_vars PROVE IInv'
    OBVIOUS
<1> USE DEF IInv
<1>1. TypeOK'
    BY NextType
<1>2. CASE UNCHANGED <<queue, popped, p, received, ended, worker>>
    BY <1>1, <1>2 DEF Running, OrderedGapless, Held, Received, Returned
<1>3. CASE UNCHANGED <<queue, popped, p, received, ended>>
           /\ worker # "done" /\ (worker' \in {"create", "receive", "eos"} => p = Nothing)
           /\ (worker' = "eos" => ~ended)
    BY <1>1, <1>3 DEF Running, OrderedGapless, Held, Received, Returned, TypeOK
<1>4. CASE ReceivePacket \/ ReceiveNothing
    <2>1. Held = <<>> /\ ~ended
        BY <1>4 DEF ReceivePacket, ReceiveNothing, Held, Running
    <2>2. popped \o queue \in Seq(Elements)
        BY ConcatProperties DEF TypeOK
    <2>3. popped \o queue = Received
        BY <1>4, <2>1, <2>2, ConcatEmptySeq
        DEF ReceivePacket, ReceiveNothing, Running, Returned
    <2>4. Returned' = Received \o Held'
        <3>1. CASE ReceivePacket
            <4>1. Held' = <<received + 1>>
                BY <3>1, StreamAssumption DEF ReceivePacket, Held, Nothing, TypeOK
            <4>. QED
                BY <3>1, <4>1, <2>1, ReceivedNext DEF ReceivePacket, Received, Returned
        <3>2. CASE ReceiveNothing
            <4>1. Held' = <<Empty>> /\ Received' = Received /\ ended'
                BY <3>2 DEF ReceiveNothing, Held, Nothing, Empty, Received
            <4>. QED
                BY <4>1, ReturnedType DEF Returned
        <3>. QED
            BY <1>4, <3>1, <3>2
    <2>5. popped' \o queue' \o Held' = Returned'
        BY <1>4, <2>3, <2>4 DEF ReceivePacket, ReceiveNothing
    <2>. QED
        BY <1>1, <1>4, <2>5 DEF ReceivePacket, ReceiveNothing, Running, OrderedGapless, TypeOK
<1>5. CASE EmplaceEos
    <2>1. popped \o queue = Received
        <3>1. Held = <<>> /\ popped \o queue \in Seq(Elements)
            BY <1>5, ConcatProperties DEF EmplaceEos, Running, Held, TypeOK
        <3>. QED
            BY <1>5, <3>1, ConcatEmptySeq DEF EmplaceEos, Running, Returned
    <2>2. popped' \o queue' = Received \o <<Eos>>
        <3>1. Eos \in Elements
            BY DEF Elements
        <3>. QED
            BY <1>5, <2>1, <3>1, PutExtends DEF EmplaceEos, Fifo!Put
    <2>3. Received \o <<Eos>> = Append(Received, Eos)
        BY ReceivedType, AppendIsConcat DEF Elements
    <2>4. Len(queue') <= Capacity
        BY <1>5, LenProperties, AppendProperties, CapacityAssumption
        DEF EmplaceEos, Fifo!Put, TypeOK, Elements
    <2>. QED
        BY <1>1, <1>5, <2>2, <2>3, <2>4 DEF EmplaceEos, Running, OrderedGapless, Received
<1>6. CASE TryPush
    <2>1. p \in Elements /\ Held = <<p>>
        BY <1>6 DEF TryPush, TypeOK, Elements, Held
    <2>2. popped' \o queue' = Returned
        BY <1>6, <2>1, PutExtends DEF TryPush, Fifo!Put, Running
    <2>3. Held' = <<>> /\ Returned' = Returned
        BY <1>6 DEF TryPush, Held, Received, Returned
    <2>4. popped' \o queue' \o Held' = Returned'
        BY <2>2, <2>3, ReturnedType, ConcatEmptySeq
    <2>5. Len(queue') <= Capacity
        BY <1>6, <2>1, LenProperties, AppendProperties, CapacityAssumption
        DEF TryPush, Fifo!Put, TypeOK, Elements
    <2>. QED
        BY <1>1, <1>6, <2>4, <2>5 DEF TryPush, Running, OrderedGapless
<1>7. CASE TryPop
    BY <1>1, <1>7, TakeOrder DEF TryPop
<1>. QED
    BY <1>2, <1>3, <1>4, <1>5, <1>6, <1>7
    DEF vars, Next, Receive, Worker, Consumer, CreateFails, StartWorker, CheckUseCount,
        ReceiveFails, FinishAgain, TryPushTimesOut, TryPopTimesOut, CallbackReturns, Cancelled,
        Running

\* What was popped, is queued and is held is what was received, in order; an
\* EOS, or the one empty packet, is behind all of it.
THEOREM OrderedGaplessCorrect == Spec => []OrderedGapless
<1>1. IInv => OrderedGapless
    BY DEF IInv
<1>. QED
    BY <1>1, InitOrder, NextOrder, PTL DEF Spec

LEMMA InvBoundsInflux == IInv => InfluxPaused
<1> SUFFICES ASSUME IInv PROVE InfluxPaused
    OBVIOUS
<1>1. /\ popped \o queue \in Seq(Elements)
      /\ Len(popped \o queue) = Len(popped) + Len(queue)
      /\ Len(popped) \in Nat /\ Len(queue) \in Nat
    BY ConcatProperties, LenProperties DEF IInv, TypeOK, Elements
<1>2. Len(Received) = received /\ received \in Nat /\ Received \in Seq(Elements)
    BY ReceivedType, StreamAssumption DEF IInv, TypeOK
<1>3. CASE popped \o queue \o Held = Returned
    <2>1. Held \in Seq(Elements) /\ Len(Held) \in Nat /\ Len(Held) <= 1
        BY HeldType DEF IInv
    <2>2. Len((popped \o queue) \o Held) = Len(popped \o queue) + Len(Held)
        BY <1>1, <2>1, ConcatProperties
    <2>3. received <= Len(popped) + Len(queue) + Len(Held)
        BY <1>1, <1>2, <1>3, <2>2, ReturnedType DEF IInv
    <2>. QED
        <3>1. Len(queue) <= Capacity /\ Capacity \in Nat
            BY CapacityAssumption DEF IInv
        <3>. HIDE DEF IInv
        <3>. QED
            BY <1>1, <1>2, <2>1, <2>3, <3>1 DEF InfluxPaused
<1>4. CASE popped \o queue = Append(Received, Eos)
    <2>1. Eos \in Elements
        BY DEF Elements
    <2>2. Len(popped \o queue) = received + 1
        BY <1>2, <1>4, <2>1, AppendProperties
    <2>. QED
        BY <1>1, <1>2, <2>2, CapacityAssumption DEF IInv, InfluxPaused
<1>. QED
    BY <1>3, <1>4 DEF IInv, OrderedGapless

\* A full queue stops the influx: at most one packet more leaves the stream.
THEOREM InfluxPausedCorrect == Spec => []InfluxPaused
BY InvBoundsInflux, InitOrder, NextOrder, PTL DEF Spec
=============================================================================
