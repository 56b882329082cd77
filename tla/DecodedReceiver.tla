--------------------------- MODULE DecodedReceiver ---------------------------
(***************************************************************************)
(* MakeDecodedReceiverQueue (cc/decoded_receivers.cc): an ImageProducer     *)
(* thread feeds the packets of a receiver queue to a decoder, whose own     *)
(* thread calls back with the images.  The headers of the packets take a    *)
(* side road: Feed queues the header of a frame head, and the callback pops *)
(* one for each image.                                                      *)
(*                                                                          *)
(* The source queue is used through its promise (OrderedGapless in          *)
(* PacketReceiverQueue): packets in order, then an EOS, or a timeout at any *)
(* time.  The decoder is external: frames come out in the order they went   *)
(* in, some not at all.  A frame, its head's header and its packet are all  *)
(* the position of the head in the stream.                                  *)
(***************************************************************************)
EXTENDS Integers, Sequences, SequencesExt

CONSTANTS header_capacity,  \* source_packet_queue_->capacity()
          queue_size,       \* of the destination queue
          LastPacket        \* bound: packets that the stream ever has

ASSUME SizesAssumption == header_capacity \in Nat \ {0} /\ queue_size \in Nat \ {0}
ASSUME BoundAssumption == LastPacket \in Nat

VARIABLES
    worker,   \* where MakeDecodedReceiverQueue, then the worker thread is
    pulled,   \* number of packets pulled from the source queue
    p,        \* the packet in hand, if it is a frame head
    headers,  \* packet_header_pcqueue_
    decoder,  \* the frames inside the decoder
    images,   \* dest_image_packet_pcqueue_
    popped,   \* history: what the caller has popped from it
    share     \* the caller still owns its ReceiverQueue

vars == <<worker, pulled, p, headers, decoder, images, popped, share>>

Packets  == 1 .. LastPacket
NoFrame  == 0
NoHeader == 0
Eos      == [frame |-> 0, header |-> NoHeader]

Full == Len(images) >= queue_size

Init ==
    /\ worker = "initialize" /\ pulled = 0 /\ p = NoFrame
    /\ headers = <<>> /\ decoder = <<>>
    /\ images = <<>> /\ popped = <<>> /\ share = TRUE

FrameOf(n, isHead) == IF isHead THEN n ELSE NoFrame

\* Only a frame head starts a new frame in the decoder.
FeedDecoder(frame) == IF frame = NoFrame THEN decoder ELSE Append(decoder, frame)

-----------------------------------------------------------------------------
(* MakeDecodedReceiverQueue and ImageProducer::Initialize.                  *)

\* No packet in time, or one that cannot be decoded; no yielder.
InitializeFails ==
    /\ worker = "initialize"
    /\ worker' = "failed"
    /\ UNCHANGED <<pulled, p, headers, decoder, images, popped, share>>

\* The first packet goes straight to the decoder.
Initialize ==
    /\ worker = "initialize" /\ pulled < LastPacket
    /\ pulled' = pulled + 1
    /\ \E isHead \in BOOLEAN : decoder' = FeedDecoder(FrameOf(1, isHead))
    /\ worker' = "check"
    /\ UNCHANGED <<p, headers, images, popped, share>>

-----------------------------------------------------------------------------
(* ImageProducer::Work.                                                     *)

\* Mutant: the loop is not left when the caller has gone.
CheckUseCountStays ==
    /\ worker = "check"
    /\ worker' = IF share THEN "pull" ELSE "check"
    /\ UNCHANGED <<pulled, p, headers, decoder, images, popped, share>>

\* while (dest_image_packet_pcqueue_.use_count() > 1)
CheckUseCount ==
    /\ worker = "check"
    /\ worker' = IF share THEN "pull" ELSE "drain"
    /\ UNCHANGED <<pulled, p, headers, decoder, images, popped, share>>

PullPacket ==
    /\ worker = "pull" /\ pulled < LastPacket
    /\ pulled' = pulled + 1
    /\ \E isHead \in BOOLEAN :
          /\ p' = FrameOf(pulled + 1, isHead)
          /\ worker' = IF isHead THEN "header" ELSE "feed"
    /\ UNCHANGED <<headers, decoder, images, popped, share>>

\* A timeout, or an EOS.
PullEnds ==
    /\ worker = "pull"
    /\ worker' = "drain"
    /\ UNCHANGED <<pulled, p, headers, decoder, images, popped, share>>

\* Feed, while (!TryPush(header, 1 second)): no way on until there is space.
PushHeader ==
    /\ worker = "header" /\ Len(headers) < header_capacity
    /\ headers' = Append(headers, p)
    /\ worker' = "feed"
    /\ UNCHANGED <<pulled, p, decoder, images, popped, share>>

Feed ==
    /\ worker = "feed"
    /\ decoder' = FeedDecoder(p)
    /\ worker' = "check"
    /\ UNCHANGED <<pulled, p, headers, images, popped, share>>

\* The packet is no gstreamer buffer, or the pipeline has ended.
FeedFails ==
    /\ worker = "feed"
    /\ worker' = "drain"
    /\ UNCHANGED <<pulled, p, headers, decoder, images, popped, share>>

\* Mutant: the decoder outlives the EOS.
SignalEOSKeepsRunner ==
    /\ worker = "drain"
    /\ worker' = "eos"
    /\ UNCHANGED <<pulled, p, headers, decoder, images, popped, share>>

\* The yielder destroys its pipeline, which has five seconds to give out the
\* frames it still holds; its own EOS is an error that PushImagePacket logs.
SignalEOS ==
    /\ worker = "drain"
    /\ decoder' = <<>>
    /\ worker' = "eos"
    /\ UNCHANGED <<pulled, p, headers, images, popped, share>>

\* Mutant: TryEmplace in the place of Emplace.
PushEosPacketOrDrop ==
    /\ worker = "eos"
    /\ images' = IF Full THEN images ELSE Append(images, Eos)
    /\ worker' = "done"
    /\ UNCHANGED <<pulled, p, headers, decoder, popped, share>>

\* "Block until EOS can be delivered."
PushEosPacket ==
    /\ worker = "eos" /\ ~Full
    /\ images' = Append(images, Eos)
    /\ worker' = "done"
    /\ UNCHANGED <<pulled, p, headers, decoder, popped, share>>

Worker ==
    \/ Initialize \/ CheckUseCount \/ PullPacket \/ PullEnds \/ PushHeader \/ Feed
    \/ FeedFails \/ SignalEOS \/ PushEosPacket

-----------------------------------------------------------------------------
(* The decoder, whose thread calls PushImagePacket.                         *)

FrontHeader == IF headers = <<>> THEN NoHeader ELSE Head(headers)

DecodedImage == [frame |-> Head(decoder), header |-> FrontHeader]

\* Mutant: the header stays in its queue.
PushImagePacketPeeks ==
    /\ decoder # <<>>
    /\ decoder' = Tail(decoder)
    /\ images' = IF Full THEN images ELSE Append(images, DecodedImage)
    /\ UNCHANGED <<worker, pulled, p, headers, popped, share>>

\* An image takes the header at the front, if there is one, and is dropped,
\* header and all, if the queue is full.
PushImagePacket ==
    /\ decoder # <<>>
    /\ decoder' = Tail(decoder)
    /\ headers' = IF headers = <<>> THEN headers ELSE Tail(headers)
    /\ images' = IF Full THEN images ELSE Append(images, DecodedImage)
    /\ UNCHANGED <<worker, pulled, p, popped, share>>

\* The decoder drops a frame, or an image cannot be made of it: no header is
\* taken.
LoseFrame ==
    /\ decoder # <<>>
    /\ decoder' = Tail(decoder)
    /\ UNCHANGED <<worker, pulled, p, headers, images, popped, share>>

-----------------------------------------------------------------------------
(* The caller.                                                              *)

Pop ==
    /\ share /\ images # <<>>
    /\ popped' = Append(popped, Head(images))
    /\ images' = Tail(images)
    /\ UNCHANGED <<worker, pulled, p, headers, decoder, share>>

Release ==
    /\ share /\ worker # "initialize"
    /\ share' = FALSE
    /\ UNCHANGED <<worker, pulled, p, headers, decoder, images, popped>>

Next == InitializeFails \/ Worker \/ PushImagePacket \/ LoseFrame \/ Pop \/ Release

Spec == Init /\ [][Next]_vars

\* The worker runs (a pull has a timeout), the decoder goes on, and a caller
\* that keeps its queue pops from it.
Fairness == WF_vars(Worker) /\ WF_vars(PushImagePacket \/ LoseFrame) /\ WF_vars(Pop)

FairSpec == Spec /\ Fairness

-----------------------------------------------------------------------------
(* Properties.                                                              *)

Images == [frame : Packets, header : Packets \cup {NoHeader}] \cup {Eos}

TypeOK ==
    /\ worker \in {"initialize", "failed", "check", "pull", "header", "feed", "drain",
                   "eos", "done"}
    /\ pulled \in 0 .. LastPacket /\ p \in Packets \cup {NoFrame}
    /\ headers \in Seq(Packets) /\ Len(headers) <= header_capacity
    /\ decoder \in Seq(Packets)
    /\ images \in Seq(Images) /\ Len(images) <= queue_size
    /\ popped \in Seq(Images) /\ share \in BOOLEAN
    /\ worker = "header" => p # NoFrame

Arrived == popped \o images

\* decoded_receivers.h:28: images arrive in the order of the stream, none
\* twice; an EOS is the last that arrives, although images come from another
\* thread than the EOS (SignalEOS against PushImagePacket).
ImagesThenEos ==
    \A m, n \in DOMAIN Arrived :
        m < n => Arrived[m] # Eos /\ (Arrived[n] = Eos \/ Arrived[m].frame < Arrived[n].frame)

\* No header is given to two images, nor to one that comes before an image
\* with an earlier header; and none is of a packet not yet pulled.
HeaderOnce ==
    /\ \A m, n \in DOMAIN Arrived :
          m < n /\ Arrived[m].header # NoHeader /\ Arrived[n].header # NoHeader
          => Arrived[m].header < Arrived[n].header
    /\ \A n \in DOMAIN Arrived : Arrived[n].header <= pulled

\* The worker waits for space in the header queue while the decoder has nothing
\* left that could make it: frames were lost, and their headers were not.
StuckOnHeader == worker = "header" /\ Len(headers) >= header_capacity /\ decoder = <<>>

\* The worker waits for space that nobody will make.
StuckOnEos == worker = "eos" /\ Full /\ ~share

\* decoded_receivers.h:35-37 promises an EOS when the source has nothing more.
\* A source ends, by an EOS or a timeout, after LastPacket packets at the latest:
\* from the first packet on, a caller that keeps popping gets an EOS, unless the
\* worker waits for ever for space in the header queue and no longer sees what
\* the source does.
EosReachesCaller ==
    (worker = "check") ~>
        (~share \/ (\E n \in DOMAIN popped : popped[n] = Eos) \/ StuckOnHeader)

\* A caller that releases its queue ends the worker, but for the two waits in
\* which the worker does not look.
WorkerEnds ==
    (~share) ~> (worker \in {"done", "failed"} \/ StuckOnEos \/ StuckOnHeader)

\* decoded_receivers.cc:184-186: "Since Gstreamer outputs decoded frames in
\* order, the decoded frame recovers the corresponding frame head's header
\* information."
HeaderRecovered ==
    \A n \in DOMAIN Arrived : Arrived[n].header = Arrived[n].frame

\* decoded_receivers.cc:301-303: "This terminates succesfully when any of the
\* following is met: [...] The destination image packet queue is released by
\* the caller."
ReleaseTerminates == (~share) ~> (worker \in {"done", "failed"})
=============================================================================
