------------------------- MODULE PacketReceiverQueue -------------------------
(***************************************************************************)
(* MakePacketReceiverQueue and ReceivePackets (base/wrappers/receivers.cc): *)
(* a detached worker thread moves packets from a PacketReceiver into a      *)
(* ProducerConsumerQueue, and a consumer pops them through the              *)
(* ReceiverQueue it was given.  The two share the queue with a shared_ptr;  *)
(* the worker notices that the consumer is gone by the use count of its     *)
(* share, which it reads between two packets and nowhere else.              *)
(*                                                                          *)
(* The queue is used through its promise (BoundedFifo, which PCQueue        *)
(* implements) and the PacketReceiver through its own (Gapless, in          *)
(* PacketReceiver).  A Receive that returns has the next packet, or an      *)
(* error, or neither: when the server ends the rpc with OK, it returns OK   *)
(* and leaves the packet it was given empty.                                *)
(***************************************************************************)
EXTENDS Integers, Sequences

CONSTANTS Capacity,   \* options.buffer_capacity
          LastPacket  \* bound: packets the stream ever has

ASSUME CapacityAssumption == Capacity \in Nat \ {0}
ASSUME StreamAssumption == LastPacket \in Nat

VARIABLES queue,      \* packet_queue, shared
          popped,     \* history: everything popped from it
          worker,     \* where the worker thread is
          p,          \* the packet it holds
          received,   \* number of packets Receive has returned
          ended,      \* Receive has returned OK without a packet
          share,      \* the consumer still owns its ReceiverQueue
          consumer,   \* where ReceivePackets is: "pop", "callback", "done", or
                      \* with the process "aborted"
          callback    \* history: what the callbacks got, time-outs as EOS

vars == <<queue, popped, worker, p, received, ended, share, consumer, callback>>

Packets == 1 .. LastPacket
Eos     == 0      \* MakeEosPacket
Nothing == -1     \* p == nullptr
Empty   == -2     \* a Packet as it was made, that Receive has not filled

Elements == Packets \cup {Eos, Empty}

Fifo == INSTANCE BoundedFifo
            WITH Items <- Elements, Bound <- Capacity,
                 buffer <- queue, delivered <- popped

Full == Len(queue) >= Capacity

Init ==
    /\ Fifo!Init
    /\ worker = "create" /\ p = Nothing /\ received = 0 /\ ended = FALSE
    /\ share = TRUE
    /\ consumer = "create" /\ callback = "none"

-----------------------------------------------------------------------------
(* MakePacketReceiverQueue.                                                 *)

CreateFails ==
    /\ worker = "create"
    /\ worker' = "done" /\ consumer' = "done" /\ share' = FALSE
    /\ UNCHANGED <<queue, popped, p, received, ended, callback>>

StartWorker ==
    /\ worker = "create"
    /\ worker' = "check" /\ consumer' = "pop"
    /\ UNCHANGED <<queue, popped, p, received, ended, share, callback>>

-----------------------------------------------------------------------------
(* The worker thread.                                                       *)

\* Mutants: the next packet is received whatever is in hand; the use count is
\* not looked at while a packet waits for space.
CheckUseCountReceives ==
    /\ worker = "check"
    /\ worker' = IF share THEN "receive" ELSE "done"
    /\ UNCHANGED <<queue, popped, p, received, ended, share, consumer, callback>>

CheckUseCountWithoutPacket ==
    /\ worker = "check"
    /\ worker' = IF p # Nothing THEN "push" ELSE IF share THEN "receive" ELSE "done"
    /\ UNCHANGED <<queue, popped, p, received, ended, share, consumer, callback>>

\* while (packet_queue.use_count() > 1)
CheckUseCount ==
    /\ worker = "check"
    /\ worker' = IF ~share THEN "done" ELSE IF p = Nothing THEN "receive" ELSE "push"
    /\ UNCHANGED <<queue, popped, p, received, ended, share, consumer, callback>>

ReceivePacket ==
    /\ worker = "receive" /\ ~ended /\ received < LastPacket
    /\ received' = received + 1
    /\ p' = received + 1
    /\ worker' = "push"
    /\ UNCHANGED <<queue, popped, ended, share, consumer, callback>>

\* Receive is OK without a packet, and the worker takes what it has made for one.
ReceiveNothing ==
    /\ worker = "receive" /\ ~ended
    /\ ended' = TRUE
    /\ p' = Empty
    /\ worker' = "push"
    /\ UNCHANGED <<queue, popped, received, share, consumer, callback>>

\* The next Receive finishes the same rpc again, and gRPC aborts the process
\* (FinishAgain in PacketReceiver), the consumer with it.
FinishAgain ==
    /\ worker = "receive" /\ ended
    /\ worker' = "aborted" /\ consumer' = "aborted"
    /\ UNCHANGED <<queue, popped, p, received, ended, share, callback>>

ReceiveFails ==
    /\ worker = "receive" /\ ~ended
    /\ worker' = "eos"
    /\ UNCHANGED <<queue, popped, p, received, ended, share, consumer, callback>>

\* Mutant: TryEmplace in the place of Emplace.
EmplaceEosOrDrop ==
    /\ worker = "eos"
    /\ IF Full THEN UNCHANGED <<queue, popped>> ELSE Fifo!Put(Eos)
    /\ worker' = "done"
    /\ UNCHANGED <<p, received, ended, share, consumer, callback>>

\* Emplace, which waits for space however long it takes; then break.
EmplaceEos ==
    /\ worker = "eos"
    /\ Fifo!Put(Eos)
    /\ worker' = "done"
    /\ UNCHANGED <<p, received, ended, share, consumer, callback>>

\* Mutants: a push that ignores the capacity; one that leaves p as it was.
TryPushUnbounded ==
    /\ worker = "push"
    /\ queue' = Append(queue, p) /\ UNCHANGED popped
    /\ p' = Nothing
    /\ worker' = "check"
    /\ UNCHANGED <<received, ended, share, consumer, callback>>

TryPushKeepsPacket ==
    /\ worker = "push"
    /\ Fifo!Put(p)
    /\ worker' = "check"
    /\ UNCHANGED <<p, received, ended, share, consumer, callback>>

TryPush ==
    /\ worker = "push"
    /\ Fifo!Put(p)
    /\ p' = Nothing
    /\ worker' = "check"
    /\ UNCHANGED <<received, ended, share, consumer, callback>>

\* TryPush has waited kDefaultTryPushTimeoutSeconds on a full queue: p keeps
\* its packet for the next round.
TryPushTimesOut ==
    /\ worker = "push" /\ Full
    /\ worker' = "check"
    /\ UNCHANGED <<queue, popped, p, received, ended, share, consumer, callback>>

Receive == ReceivePacket \/ ReceiveNothing \/ ReceiveFails
Worker  == CheckUseCount \/ FinishAgain \/ EmplaceEos \/ TryPush \/ TryPushTimesOut

-----------------------------------------------------------------------------
(* The consumer, the loop of ReceivePackets.                                *)

TryPop ==
    /\ consumer = "pop"
    /\ Fifo!Take
    /\ callback' = IF Head(queue) = Eos THEN "eos" ELSE "packet"
    /\ consumer' = "callback"
    /\ UNCHANGED <<worker, p, received, ended, share>>

\* Nothing arrived in time: the callback is given an EOS packet of its own.
TryPopTimesOut ==
    /\ consumer = "pop" /\ queue = <<>>
    /\ callback' = "timeout"
    /\ consumer' = "callback"
    /\ UNCHANGED <<queue, popped, worker, p, received, ended, share>>

\* The callback returns: go on, unless it says kCancelled; then the function
\* returns and its ReceiverQueue is destroyed.
CallbackReturns ==
    /\ consumer = "callback"
    /\ consumer' = "pop"
    /\ UNCHANGED <<queue, popped, worker, p, received, ended, share, callback>>

Cancelled ==
    /\ consumer = "callback"
    /\ consumer' = "done"
    /\ share' = FALSE
    /\ UNCHANGED <<queue, popped, worker, p, received, ended, callback>>

Consumer == TryPop \/ TryPopTimesOut \/ CallbackReturns

Next == CreateFails \/ StartWorker \/ Receive \/ Worker \/ Consumer \/ Cancelled

Spec == Init /\ [][Next]_vars

\* The worker runs, but for a Receive, which may wait for the server for ever;
\* the consumer pops and its callbacks return.  Nobody has to cancel, and a pop
\* that could succeed is not outrun by its timeout for ever.
Fairness == WF_vars(Worker) /\ WF_vars(Consumer)

FairSpec == Spec /\ Fairness

-----------------------------------------------------------------------------
(* Properties.                                                              *)

TypeOK ==
    /\ queue \in Seq(Elements) /\ popped \in Seq(Elements)
    /\ worker \in {"create", "check", "receive", "eos", "push", "done", "aborted"}
    /\ p \in Packets \cup {Empty, Nothing}
    /\ received \in 0 .. LastPacket /\ ended \in BOOLEAN
    /\ share \in BOOLEAN
    /\ consumer \in {"create", "pop", "callback", "done", "aborted"}
    /\ callback \in {"none", "packet", "eos", "timeout"}
    /\ worker = "receive" => p = Nothing
    /\ worker = "push" => p # Nothing
    /\ consumer = "done" => ~share
    /\ consumer \in {"create", "pop", "callback"} => share
    /\ worker = "create" <=> consumer = "create"
    /\ worker = "aborted" <=> consumer = "aborted"

Held     == IF p = Nothing THEN <<>> ELSE <<p>>
Received == [n \in 1 .. received |-> n]

\* Everything Receive has returned OK with.
Returned == IF ended THEN Append(Received, Empty) ELSE Received

\* receivers.h:62-67, "Ordered", "Gapless" and EOS: what was popped, what is
\* queued and what the worker holds are together all the packets received, in
\* their order, however often a push timed out and was tried again.  After all
\* of them comes one thing more at the most.  It is the EOS of a Receive that
\* failed, which ends the worker: a consumer that sees it misses nothing if it
\* stops there.  Or it is the empty packet of an rpc that the server ended with
\* OK, which the header does not tell of: neither data nor an EOS.
OrderedGapless ==
    \/ popped \o queue \o Held = Returned
    \/ popped \o queue = Append(Received, Eos) /\ ~ended /\ p = Nothing /\ worker = "done"

\* receivers.h:59, "the Packet influx will be paused if the receiver queue
\* becomes full": at most one packet beyond the queue is taken off the stream.
InfluxPaused ==
    received <= Len(popped) + Capacity + 1

\* While the consumer goes on, what was received reaches it, and so does the
\* news that no more will come; unless the process is aborted, in the Receive
\* after an empty packet.
Delivered ==
    /\ \A n \in Packets :
          (received = n) ~> (~share \/ worker = "aborted" \/ Len(popped) >= n)
    /\ (worker = "eos") ~> (~share \/ \E n \in DOMAIN popped : popped[n] = Eos)

\* A consumer that goes away ends the worker, wherever the worker is, with two
\* exceptions.  An error from the server finds the queue full, and the worker
\* waits for space that nobody will ever make; or the server has nothing more
\* to say, and no timeout was asked of it.
StuckOnEos     == worker = "eos" /\ Full /\ ~share
WaitsForServer == worker = "receive" /\ ~ended

WorkerEnds ==
    (~share) ~> [](worker \in {"done", "aborted"} \/ StuckOnEos \/ WaitsForServer)
=============================================================================
