# A verification project for AI Streams

AI Streams moves packets of video and other data between programs and a stream
server. The library under `src/aistreams` is what a client links: receivers and
senders over gRPC, queues that decouple a network thread from its user, and
GStreamer pipelines that decode, encode, save and upload video. Above the library
are two GStreamer elements, a handful of applications and a command line, `aisctl`. This
directory models all of these in TLA+, checks them with TLC on small instances, and
proves every safety property that the runs check with TLAPS, for instances of any size.

- [1. The system](#1-the-system)
- [2. The modules](#2-the-modules)
- [3. The runs, their bounds and what they show](#3-the-runs-their-bounds-and-what-they-show)
- [4. Fairness](#4-fairness)
- [5. What is proved](#5-what-is-proved)
- [6. Where the code and its documents disagree](#6-where-the-code-and-its-documents-disagree)
- [7. What is not modelled](#7-what-is-not-modelled)
- [8. The plan](#8-the-plan)

To check a run: `tlc -config <cfg> <module>`; to check the proofs: `tlapm` on each of
the eight modules whose names end in `Proofs`.

## 1. The system

Paths are relative to `src/aistreams`.

### Components, their state and their operations

| Component | State it keeps | Operations |
|---|---|---|
| `ProducerConsumerQueue` (`util/producer_consumer_queue.h`) | a deque, a mutex, two condition variables, a capacity | `Emplace`, `TryEmplace`, `TryPush`, `Pop`, `TryPop` |
| `CompletionSignal` (`util/completion_signal.cc`) | completed or not, a status | `Start`, `End`, `IsCompleted`, `WaitUntilCompleted` |
| `PacketReceiver` (`base/packet_receiver.cc`) | its current mode, one gRPC reader and client context per mode, whether it has received before, the number of unary packets | `Create`, `Receive`, `Subscribe` |
| `MakePacketReceiverQueue`, `ReceivePackets` (`base/wrappers/`) | a queue shared by a detached worker and a consumer | the worker's loop, the consumer's loop |
| `MakeDecodedReceiverQueue` (`cc/decoded_receivers.cc`) | a source queue, a queue of packet headers, a decoder, a queue of images | the worker's `Feed` loop, the decoder's callback |
| `GstreamerVideoExporter` (`gstreamer/gstreamer_video_exporter.cc`) | three workers, each a thread with a completion signal; two channels; the open video file | `Run`; `Work` and `Join` of a worker; a source, a saver, an uploader |
| `GstreamerRunner` (`gstreamer/gstreamer_runner.cc`) | a pipeline, a main loop thread, a completion signal set by the bus watch | `Create`, `Feed`, `IsCompleted`, `WaitUntilCompleted`, destruction with a deadline |
| `GstreamerRawImageYielder`, `GstreamerVideoWriter` | a runner, whether EOS was signalled | `Feed`/`Put`, `SignalEOS`, destruction |
| `GstLaunchPipeline` (`gstreamer/gstreamer_utils.cc`) | a pipeline, its bus, a detached stopper thread | one call from launch to return |
| `aissrc`, `aissink` (`gstreamer/gst-plugins/`) | properties, a pointer to a receiver or a sender, a status | `init`, set and get a property, `start`, `create` or `render`, `stop`, `dispose` |
| C API (`c/c_api.cc`, `c/ais_packet.cc`) | handles around a sender and a receiver queue | create, delete, send, receive, make and convert packets |
| `PacketSender` (`base/packet_sender.cc`) | a gRPC writer, or none for unary rpcs | `Create`, `Send`, destruction |
| Connections (`base/stream_channel.cc`, `base/util/`) | none | channels, client contexts, ID tokens |
| Management client (`base/management_client.cc`) | none between calls | stream and cluster operations, `WaitOperation` with its `ExponentialBackoff` |
| Ingester (`cc/ingesters.cc`, `python/apps/ingester_app.cc`) | local to a call | choice of a pipeline, a launch, `--loop` |
| `playback_app`, `printer_app`, `replay_app`, `chunker_app`, `manager_app` | local to a call | one use of the above each |
| `aisctl` (`python/cli/`) | none | a command line becomes the flags of an application |
| Packets (`base/packet_as.h`, `base/make_packet.h`, `base/types/`, `gstreamer/type_utils.cc`) | a header with flags and addenda, a payload | make, mark, annotate, adapt and remake a packet; convert an image to and from a GStreamer buffer |
| `Status`, trace, file helpers, packaging | none that is shared | see section 7 |

### How they interact

The stream server talks to a `PacketReceiver` by gRPC. A detached worker calls
`Receive` in a loop and pushes what it gets into a `ProducerConsumerQueue` that it
shares with a consumer by `shared_ptr`; a consumer that goes away drops its share,
and the worker is expected to see that in the use count. On top of that queue,
`ImageProducer` runs a second detached worker that feeds packets to a decoder;
the decoder's own thread calls back with images, which go into a second queue. The
exporter wires a source of images, a saver and an uploader with queues in between;
there each side of a channel looks at the other's completion signal. Below all of
these, a `GstreamerRunner` runs a GLib main loop thread whose bus watch completes a
signal, and a sink thread that calls back.

`aisctl` replaces its process by an application. The ingester and the playback launch a
pipeline with `GstLaunchPipeline`; its elements `aissink` and `aissrc` own, through the C
API, a `PacketSender` and a receiver queue, and meet at the stream. The printer and the replay
pop from a receiver queue themselves, the chunker runs a `GstreamerVideoExporter`, and the
manager makes one call of the management client, whose server finishes it on its own
time.

### What is hard, and what makes each part correct

- **The queue.** Any number of threads, waits with and without a timeout, wakeups
  meant for one thread and used by another. Correct: it is a bounded FIFO; a
  failed push leaves its element with its owner; no wakeup is lost; no waiter is
  stranded; a timed call returns.
- **The receiver.** Two rpcs are opened in Auto mode and one has to go; unary polls
  fail and are repeated; the server ends rpcs when it likes. Correct: what arrives is
  a contiguous run of the stream that begins at the latest critical packet up to the
  offset asked for; the current
  rpc is never the one that is disposed of; the mode never changes under a caller
  who already has packets.
- **The receiver queue.** A push that times out is retried with the same packet; the
  EOS must come last; an rpc that ends with OK gives a packet that is empty; the consumer
  may leave at any time. Correct: ordered and gapless, bounded influx, delivery to a
  consumer that stays, an end to the worker of one that leaves.
- **The decoded receiver.** Three threads and two queues that must stay in step: the
  header of a frame travels by one, its image by the other. Correct: images in order,
  an EOS after all of them, no header used twice.
- **The exporter.** Three workers that poll, each in two steps (a pop that times out,
  then a look at the other's signal); elements and even EOS dropped at full channels;
  failures of any worker; a deadline after which a worker is abandoned. Correct: every
  frame is accounted for, files are full and in order, a finished video is never lost,
  an OK means that all is done, and `Run` returns.
- **The runner and the yielder.** All main loops of the process share the default GLib
  context, so that the messages of one runner are dispatched by the loop of another; the
  sink's callback runs in a thread of the pipeline; the destructor drains, gives up after a
  deadline, and destroys what these threads use. Correct: nothing of a runner runs after its
  destruction, what was fed is drained unless that is late or failed, the completion is seen,
  the destructor returns, and an EOS comes after all images.

- **The sender and `aissink`.** A write that returns true has put a packet on its way, no more;
  `render` drops what it cannot convert and reports success; the rpc may break, or the process
  end, at any time; elements are stopped, set and started in any order. Correct: what arrives is a
  prefix of what was written, all of it when the rpc is finished with OK; a source that was played
  to its end is in the stream, with an EOS behind it; what a connected element shows is what it is
  connected with.
- **The consumers and `aissrc`.** A queue that a silent or finished stream may leave empty; the
  EOS of another producer, or of the worker itself, in the middle of it; a stopper thread that
  outlives the launch. Correct: what is shown is a run of the stream without a gap and without
  what is behind an EOS; an application with a timeout ends.
- **The management client.** A long-running operation that ends by itself between two polls, or
  fails, or never ends; other clients of the same server. Correct: an OK means that it was carried
  out; nothing is given up before the documented patience is used up; a call ends.
- **The command line.** Op ids that are numbers in Python and positions in C++; options that pass
  through flags, a launch string and properties. Correct: what runs is what was typed.
- **The packets.** A packet is taken apart by `PacketAs`, which keeps its header; it is marked, moved
  from and remade; anything may arrive on the stream; a constructor of `RawImage` kills the process when
  sizes disagree; GStreamer pads the rows of an image, and the padded size may overflow an int. Correct: a
  packet is adapted as the type it was made of, always, and as no other, with its value and its marks; an image
  comes back as it was unless its padded size is no int.

`PROJECT.json` lists the hazards line by line, with the property that watches each.

## 2. The modules

| Module | Models | Composes |
|---|---|---|
| `BoundedFifo` | what a bounded queue promises | |
| `PCQueue` | `ProducerConsumerQueue`, thread by thread | implements `BoundedFifo` |
| `PCQueueProofs` | theorems about `PCQueue` | |
| `PacketReceiver` | `PacketReceiver`, its subscriber, the stream server as a client sees it | |
| `PacketReceiverProofs` | theorems about `PacketReceiver` | |
| `PacketReceiverQueue` | the worker of `MakePacketReceiverQueue` and the loop of `ReceivePackets` | uses `BoundedFifo` in the place of `PCQueue` |
| `PacketReceiverQueueProofs` | theorems about `PacketReceiverQueue` | |
| `DecodedReceiver` | `ImageProducer`, the decoder's callback, the caller | uses the promise of `PacketReceiverQueue` |
| `DecodedReceiverProofs` | theorems about `DecodedReceiver` | |
| `VideoExporter` | `GstreamerVideoExporter::Run` and its workers, with their completion signals | uses the promise of `PCQueue` |
| `VideoExporterProofs` | theorems about `VideoExporter` | |
| `GstreamerRunner` | `GstreamerRunner`: creation, feeding, sink, main loops, bus watch, destruction | |
| `ImageYielder` | what a yielder promises | |
| `RawImageYielder` | `GstreamerRawImageYielder` | extends `GstreamerRunner`; implements `ImageYielder` |
| `RawImageYielderProofs` | theorems about `GstreamerRunner` and `RawImageYielder` | |
| `StreamChannel` | channels, client contexts, ID tokens (operators only) | |
| `ManagementClient` | `StreamManager`, `ClusterManager`, `WaitOperation` and their servers | |
| `ManagementClientProofs` | theorems about `ManagementClient` | |
| `ManagerApp` | `manager_app` | extends `ManagementClient` |
| `PacketSender` | `PacketSender` with the stream, and a program that uses it | extends `StreamChannel` |
| `AisSink` | the element `aissink` on the C API | extends `PacketSender` |
| `AisSrc` | the element `aissrc` on the C API, and the receiver queue below it | extends `PacketSender` (for the stream); uses the promise of `PacketReceiverQueue` |
| `GstLaunch` | `GstLaunchPipeline` with its stopper thread | |
| `Ingester` | `ingester_app` and `Ingest` | extends `AisSink`, `GstLaunch` |
| `Consumers` | `playback_app`, `printer_app`, `replay_app` | extends `AisSrc`, `GstLaunch` |
| `Chunker` | `chunker_app`, up to the exporter it makes | its exporter's run is `VideoExporter` |
| `Packets` | packets, their types and flags, raw images and their way through GStreamer (operators only) | |
| `PacketProgram` | a program that makes, changes, adapts and converts one packet through the API | extends `Packets` |
| `Aisctl` | `aisctl`, and the applications over one stream and their servers | extends `ManagerApp`, `Ingester`, `Consumers`, `Chunker`, `PacketProgram` |
| `AisctlProofs` | theorems about `Aisctl` and what it composes | |
| `MC*` | the instances TLC checks | |

The layers meet at promises. `PCQueue` is shown to implement `BoundedFifo`, and the
modules above put and take in one step. `PacketReceiver` shows `Gapless`, and
`PacketReceiverQueue` lets a `Receive` return the next packet, an error, or OK without a
packet; `PacketReceiverQueue` shows `OrderedGapless`, and `DecodedReceiver` pulls packets in
order or is told of an end. `RawImageYielder` is shown to implement `ImageYielder`, which is
the decoder that `DecodedReceiver` and `VideoExporter` have inside: images in order, some lost,
none after the EOS.

**PCQueue.** A method holds `mu_` from its entry, or the return of a wait, to its
return, or the next wait; one such pass is one action (`Emplace(t)`, `TryPush(t)`, ...).
`pc[t]` says whether a thread is about to take `mu_`, sleeps on one of the two condition
variables, or has been woken and contends again; a woken thread has no precedence over
one that just entered. `Expire` lets the time of a timed call run out, `TimeoutWake` lets
the wait return for that, `SpuriousWake` for no reason. The capacity test stands in the
code three times (lines 144, 155 and 176) and is one operator, `Full`; a capacity of `INT_MAX`
is no limit.

**PacketReceiver.** `rpc[m]` is the entry of `streaming_readers_` and `ctx_` for a mode:
absent, open, ended by the server with a status, or finished. `StreamingReceive` is split
where it blocks: the entry reads `first_receiving_` into a local and calls `Read`; the
return of `Read` is `ReadPacket`, `ReadFails` or, for OUT_OF_RANGE on the first call of
an Auto receiver, `SwitchToReplay`, which disposes of the live rpc and goes on with the
other in the same call. A unary poll is one step with four outcomes: the request or its
answer is lost, the answer holds no packet, or holds one. The server appends packets,
drops old ones from the window of the live rpc, and ends rpcs. Any set of packets is
`critical`, and an offset stands for the latest of them up to it (`OffsetPosition`). The server is
external: its rules come from `proto/stream.proto` and from the tests' mock server. What the
proto leaves open, an offset with no critical packet before it, is the packet itself.

**PacketReceiverQueue.** The worker goes `check` (the use count), `receive`, `push`; `p`
survives a push that times out. When the server ends the rpc with OK, `ReceiveNothing` leaves the
worker with the empty packet it has made, which it pushes; its next `Receive` finishes a finished
rpc, and gRPC aborts the process (`FinishAgain`). `AisSrc` has the same two steps. `Fifo!Put` and `Fifo!Take` are the queue's. `popped` is a
history of what the consumer got.

**DecodedReceiver.** A frame, its header and its packet are all the position of the frame
head in the stream. Packets that are no frame head feed the decoder without a new frame.
The decoder gives frames out in order or loses them.

**VideoExporter.** An image is the number of the frame, a path the number of the file.
`pc[w]` follows the worker's loop; `timeout` is the point between a `TryPop` that found
nothing and the look at the other's signal. `Run` starts the uploader, the saver and the
source, in that order, and joins the source without and the others with a deadline;
`DetachedStep` is a step of a thread whose object is gone.

**GstreamerRunner.** `phase[r]` is where the thread is that creates, uses and destroys
a runner: `spin` is the loop in the constructor of `GMainLoopManager`, `drain` the wait of
`Finalize`, `stop` and `late` are before `GST_STATE_NULL`, `quit` and `join` are the destructor of the
loop manager. `loop[l]` is the thread of a main loop; only the `owner` of the context
pops messages, from any bus, and dispatches them. Between `PopMessage` and
`gst_bus_message_callback` another thread can move; if it destroys the signal, the pair is
recorded in `stray` and the process stops, as its further behaviour is undefined. A pipeline is
a queue of positions that loses some; an error stops it.

**RawImageYielder.** The actions of a runner, with `eos_signaled_` on top: `SignalEOS` (or the
destructor) is the destruction of the runner, then `DeliverEos`. The other runners of the process
keep all their actions.

**ManagementClient.** A call is `at` its first rpc, at a `poll` or a `wait` of `WaitOperation`, at
the unpacking of the answer, or done. `trials` and `wait` are `num_trials` and
`current_wait_time_`; the wait is in seconds and grows as `ExponentialBackoff::Wait` computes it.
The server carries the operation (`lro`) out, or fails it, in steps of its own, and other
clients create and delete meanwhile. An rpc that fails may have reached the server. That the code
looks at `has_error` before `done` is the operator `HasError`.

**ManagerApp.** `Operations` is the registry of `main`, one action per registered function;
`CreateStreamManager` and `CreateClusterManager` are the checks of the flags in the order
of the code. The process always exits with 0, after logging `logged`.

**PacketSender.** `writer` is `streaming_writer_` with its rpc. `Send` puts a packet on the `wire`;
the server moves it from there to the `log`, which is the stream. The destructor is two
steps: `DeleteSender` half closes, `FinishReturns` comes when the server has everything, or the
rpc is broken. `session` numbers the senders, and every packet carries the number of its sender,
so that the properties can say what of the log came from whom. A unary `Send` whose response says
"not accepted" returns OK, as in the code.

**AisSink, AisSrc.** The pointer to the sender or receiver is `NULL`, `live` or `dangling`: `stop`
deletes the object and leaves the pointer, which the setters of strings take for a connection. The
properties are records, set one at a time, with and without a guard as in the code (the booleans
have none). `render` and `create` are split into the call of the streaming thread and its
return, because both block. `AisSrc` moves packets from the log into a bounded queue in
order and puts behind them an EOS of its own (`LocalEos`) when the rpc fails, or one empty packet
when it ends with OK: that is what `PacketReceiverQueue` establishes.

**GstLaunch.** Fields per application, because an ingester and a playback run side by side: where
the call is, what is on the bus, whether the stopper sleeps. The message that is popped is not
looked at. `LaunchPlayFails` leaves the elements that did start as they are.

**Ingester, Consumers, Chunker.** An option is told apart by what the code looks at: the prefix of
a uri, the codec, whether a string is empty, whether a certificate can be read. The choice of the
pipeline's elements is a pure operator (`DecideGstLaunchPipeline`), and a launch succeeds only if
every one of them is `Installed`. `RunIngester`'s loop, the pops of `RunPrinter` and of the
replay with its stop condition, and the streaming thread of a playback are actions. An EOS event
that the stopper sent is seen between two creates.

**Packets, PacketProgram.** A value is a type, what its descriptor says, and its bytes; a packet is a
header (type id, descriptor, flags, addenda) and a payload, which is the bytes as its type packs them.
`UnpackAs` is the chain of checks of `packet_as.h` and the type's traits in the order of the code.
The pixels of an image are a sequence of bytes, so that rows, strides and padding are those of
`type_utils.cc`. `IntMax` is the largest `int`: an image whose own size does not fit is refused by
`GetBufferSize`; a padded size that does not fit is computed unchecked, and the program may die of it
(`PaddingOverflows`, `GstreamerBufferOutcomes`). In the other direction a buffer may be of no raw image, of one
plane in another format, or shorter than its caps say: the bytes behind its end are `Stray`, or not there
(`RawImageOutcomes`). `PacketProgram` keeps one packet, the history `made` of what it ought to hold, and what the last
adaptation or conversion returned; `PacketArrives` puts any packet in its place.

**Aisctl.** The flags that each command passes on, as records (`ManagerFlags`, `ConnFlags`, ...), and
`CliExec`, the execution of the application. The module is also the composition: one stream, at
most one ingester and one consumer, and their servers. A *scenario* names the command lines that
are typed, the other programs that run, and how many packets other producers send.

## 3. The runs, their bounds and what they show

| Run | Instance | States | Shows |
|---|---|---|---|
| `pcqueue` | 2 producers, 2 consumers, capacity 2, 4 elements | 204,000 | `FifoOrder`; `OneOwner`; `NoLostWakeup`; implements `BoundedFifo`; `NoStuckWaiter`; `TimedCallsReturn` |
| `packet_receiver` | all four modes, with and without an offset; 4 packets, any of them critical, offset 3, 2 lost unary polls | 264,000 | `Gapless`, `OffsetHonoured`, `ReaderPresent`, `OneRpcOnceSettled`, `AutoFallsBack` |
| `packet_receiver_queue` | capacity 2, 5 packets | 960 | `OrderedGapless`, `InfluxPaused`, `Delivered`, `WorkerEnds` |
| `decoded_receiver` | header and image queues of 2, 4 packets, any of them a frame head | 5,600 | `ImagesThenEos`, `HeaderOnce`, `EosReachesCaller`, `WorkerEnds` |
| `video_exporter` | files of 2, channels of 2, 3 frames; both sources, with and without upload and local copies | 298,000 | `FramesAccounted`, `FilesFilled`, `VideoSafe`, `OkMeansDone`, `RunReturns` |
| `raw_image_yielder` | a yielder with 2 samples and an error, a live runner with 1 sample; 2 calls of `SignalEOS` | 163,000 | `OwnLoopSafe`, `QuietAfterFinalize`, `DrainedUnlessLate`, implements `ImageYielder`, `CompletionSeen`, `DestructorReturns` |
| `aisctl` | every command line of `MCAisctl`, one scenario at a time; 2 packets on the wire, 2 buffers in a source, 2 iterations, queues of 2, up to 4 packets of other producers; an `IntMax` of 24, images of up to that many bytes, padded to more, and packets and buffers of every type, well formed and not | 358,000 | `OkMeansApplied`, `GivesUpAfterPatience`, `SessionDelivered`, `SourceDelivered`, `ConnectedAsShown`, `RunsAsAsked`, `ShownIsRunOfStream`, `AdaptedAsMade`, `ImagesKept`, `CommandsEnd` |
| `gstreamer_runner_create`, `packet_receiver_ok_end`, `video_exporter_detached`, `decoded_receiver_header`, `decoded_receiver_release` | smaller ones | | a counterexample each, see section 6 |

The type invariants are proved and not checked again by a run, as is `NoLateSwitch` of `PacketReceiver`.

Why these bounds are enough for what is asked:

- *pcqueue*: a lost wakeup needs a waiter, a thread that was signalled, and a thread that
  overtakes it on the same side of the queue, and a thread on the other side to signal;
  that is what two and two threads give. Four elements pass through two slots, so
  that both producers can wait at a full queue at once, as both consumers can at an empty one:
  `NoStuckWaiter` catches the loss of either `Signal`.
  The safety properties are proved for all sizes (section 5).
- *packet_receiver*: with four packets and an offset of three there are two packets before the
  offset, one at it and one after it, each critical or not: the start the server gives is the
  offset, one or two before it, and an early start, a gap and a repeat are all different. Two lost polls give a failure before and after the first success.
- *packet_receiver_queue*: five packets are one popped, two queued, one in hand and one
  in the stream.
- *decoded_receiver*: four packets overfill a queue of two by more than the one image
  that is in the decoder.
- *video_exporter*: three frames and files of two give a full file, a file that the EOS cuts
  short, and (with a frame lost) an EOS exactly at a file's boundary.
- *raw_image_yielder*: two runners are what it takes for a loop to dispatch a message that
  is not its own; two samples give one inside the pipeline while another is at the sink.
  The live runner ends by itself or by its callback, so that each kind of completion occurs.
- *aisctl*: the scenarios are a sum and not a product. A command line that manages, ingests,
  consumes or chunks has the system for itself, with the servers and other producers around it; an
  ingester is combined with a playback and with a printer; and three programs use the sender and
  each element in any order of calls. Managers and chunkers share no state with the others, and two
  consumers share only the log, which none of them writes, so that a product would add
  interleavings and no behaviour. Per scenario: the trials and the waits (15, from 2 seconds to
  120, doubled) are those of the code, because `GivesUpAfterPatience` is about their sum; one name
  is enough since other clients create and delete it. Two packets on the wire is one that the
  server has and one that is lost, or both lost; an EOS is the third, so that the wire is
  full when the element stops. Two starts of an element are what a pointer that dangles needs.
  Two buffers are one rendered and one dropped. Two iterations give a stream with an EOS in the
  middle. Queues of two with up to four packets fill, wait, and hold an EOS of a producer and one
  of the worker.

The counters that would grow without a bound are bounded in the guards, by `MaxItems`
(elements made), `LastPacket`, `LastFrame` and `LastSample` (the stream ends there, or goes quiet),
`MaxFailures` (unary polls that fail), `MaxErrors` (errors posted by elements), `MaxSignals`
(calls of `SignalEOS`), `MaxDirect` (packets of a direct user of the sender), `MaxPlays` (starts of an
element), `MaxBuffers` (buffers of a source), `MaxLoops` (iterations of the ingester) and `others` of a
scenario. `MaxWire` and `MaxQueue` are capacities. Deadlock checking is off in all runs because every one of
these systems may come to rest: producers stop, the stream ends, `Run` returns, and a worker may
wait for the network for ever. That nothing stops too early is what the liveness properties say.

## 4. Fairness

Fairness is weak throughout, and is asked only for threads that the code lets run.

- `PCQueue`: a thread that is about to take `mu_`, and a woken one, gets it (absl's mutex
  is fair enough for this); a timed wait returns when its time has passed. Nobody has to
  call. A wait without a timeout has no right to end.
- `PacketReceiver`: the thread in `Receive` runs. Of the server it is assumed only that it ends
  the live rpc of a consumer that has fallen out of its window, which is what the status
  OUT_OF_RANGE is for; it need not send a packet.
- `PacketReceiverQueue`: the worker runs, but a `Receive` may block for ever; the
  consumer pops and its callbacks return. Nobody has to cancel.
- `DecodedReceiver`: the worker runs (its pull has a timeout), the decoder goes on, a
  caller that keeps its queue pops.
- `VideoExporter`: the threads run. A source may go on as long as it likes; no deadline
  has to pass.
- `RawImageYielder`: the threads of a runner run, its callback returns and its five
  seconds pass. Nobody has to feed or destroy a runner, no pipeline has to end.
- `Aisctl`: a typed command is executed; a manager goes on, except in the rpc of an on-prem
  manager, which has no deadline (the managed service answers, and refuses what it cannot do);
  a consumer, its streaming thread included, goes on, and its timeout passes while its queue is
  empty. Nothing is assumed of the stream's server, of the network, of the receiver's worker, of other
  producers, of the stopper, of other elements of a pipeline, or of a long-running operation.

## 5. What is proved

Assumed of the constants: a capacity is a positive natural number (the constructor aborts
otherwise), the sets of threads are finite, the bounds are natural numbers. Nothing else.

**`PCQueueProofs`**, for any threads and any capacity.

- `TypeCorrect`: `TypeOK`, which also says in which method a thread can be at which
  wait.
- `FifoCorrect`: `FifoOrder`, from `TypeOK`. It is preserved because a push extends both
  sides at the end (`AcceptKeepsOrder`) and a pop moves the head of one part to the end
  of the other (`TakeKeepsOrder`).
- `FifoRefinement`: `Spec => Fifo!Spec`. A method that accepts or gives an element
  is a `Put` or a `Take`; a wait, a timeout, a wakeup and a failure are stuttering steps.
- `WakeupsNotLost`: `NoLostWakeup`. It is inductive together with `TypeOK`. The argument
  is a count: a signal moves a thread from the waiters to the woken for each element added,
  and a woken thread that leaves either takes an element (and the element count falls by
  one) or found none.
- `OwnerUnique`: `OneOwner`. Elements are numbered as they are made, so the strengthening
  says that nothing beyond `made` exists anywhere.

**`PacketReceiverQueueProofs`**, for any capacity and any stream.

- `TypeCorrect`: `TypeOK`.
- `OrderedGaplessCorrect`: `OrderedGapless`. It is not inductive: with an EOS already in
  the queue a push would break it. The strengthening `IInv` adds `Running`: as long as the
  worker is not done there is no EOS and popped, queued and held are exactly what `Receive`
  returned, the empty packet of an rpc that ended with OK as its last; and in the states that lead to an EOS or to a `Receive` the worker's hand is empty.
- `InfluxPausedCorrect`: `InfluxPaused`, from `IInv` by taking lengths.

**`PacketReceiverProofs`**, for any stream, any offset and any number of failures.

- `TypeCorrect`, `ReaderPresentCorrect`, `OneRpcOnceSettledCorrect`, `NoLateSwitchCorrect`, from an
  invariant in three parts: `Created` says which rpcs exist before `Create` is through,
  `Streams` that a streaming receiver has its current rpc, and another one only in Auto mode before
  its first packet, `Polls` that a unary receiver has none. The hard step is the switch: the copy
  `first` that a blocked `Receive` holds has to agree with the number of rpcs (`FirstReceive`).
- `GaplessCorrect`, `OffsetHonouredCorrect`: `Positions` ties the position of each open rpc to the last
  packet received, or to the offset while there is none; the two properties are then
  preserved by each way a packet arrives (`GotMore`, `Follows`). That a set of critical packets has a
  latest one is `LargestIs`, from the well-founded order of the numbers, and that the offset stands for a
  packet of the stream `OffsetPositionIs`.

**`DecodedReceiverProofs`**, for any queues, any stream and any decoder.

- `TypeCorrect`: `TypeOK`.
- `ImagesThenEosCorrect`, `HeaderOnceCorrect`. What has arrived is below what is in the decoder,
  which is below what the worker holds, which is not beyond what was pulled; the same holds of
  the headers on their own road (`Decoding`, `Heading`, `InHand`, `Pulled`, all in `Sources`). An
  EOS is pushed only when the decoder is empty (`Ends`).

**`VideoExporterProofs`**, for any sizes and any source.

- `TypeCorrect`: `TypeOK`, which says that a signal is down exactly while its thread works.
- `FilesFilledCorrect`: `FilesFilled`, from `Filling`: before its last file the saver closes only full
  ones, and what is open is short of full except on the way to `finish`.
- `FramesAccountedCorrect`: `FramesAccounted`. The invariant `FramesInv` says the same of files, open file
  and channel apart: `Ordered`, by positions within each and across them, and `Accounted`, by the three
  sets of frames. Each action moves the last or the first of one of them (`Emplaced`, `Popped`,
  `FrameTaken`), and `FramesSay` puts them together into the sequence of the property.
- `VideoSafeCorrect`: `VideoSafe`, which is inductive together with `TypeOK`.
- `OkMeansDoneCorrect`: `OkMeansDone`. `Stages` relates the place of `Run` to the threads that have
  been started, `Joined` says that what `Run` has joined without an error is over and went
  well.

**`ManagementClientProofs`**, for any names, any number of trials and any backoff.

- `TypeCorrect`: `ManagementTypeOK`, with `Trying`: the loop polls again only while it has
  trials left.
- `OkMeansAppliedCorrect`: `OkMeansApplied`. The strengthening `Applied` says that an operation that
  succeeded, or whose answer is being unpacked, was carried out.
- `GivesUpAfterAllTrials`: a call that gives up has made every trial, and was kept waiting
  for at most `MaxTrials` of the longest waits. `Waiting` counts the waits from the trials.
- `GivesUpAfterPatienceCorrect`: under `CodesBackoff` (the 15 trials, the waits from 2 to 120
  seconds, the factor 2 and the 20 minutes of `management_client.cc`) `GivesUpAfterPatience`, for any names and
  servers. `OnSchedule` gives the next wait and the sum of the waits after each trial.

**`RawImageYielderProofs`**, for any runners, samples and errors, and any runners beside a yielder.

- `TypeCorrect`: `TypeOK` of `GstreamerRunner`.
- `QuietAfterFinalizeCorrect`: `QuietAfterFinalize`. The strengthening `Quiet` says the same of
  the time before PLAYING; between the two only `SetStateNull` leads to rest, and it waits for
  the sink.
- `OwnLoopSafeCorrect`: `OwnLoopSafe`, with `LoopsEnd`: only the owner of the context has
  a message in hand, and the loop of a destroyed runner has ended.
- `DrainedUnlessLateCorrect`: `DrainedUnlessLate`. The strengthening `AllDraining` says of each runner with
  an `appsrc` and no error that nothing ends its pipeline before `Finalize`, and that from then on the EOS
  is behind all samples: so the end that `Finalize` waits for comes when the pipeline is empty. That holds
  whichever loop dispatches it (`LoopKeepsEnding`).
- `YielderRefinement`: `YielderSpec => Promise!Spec`. Every step of the yielder is a step of
  the runners (`YielderStepIsRunnerStep`), so that the above holds of it; an image at the sink is
  later than all that were given (`Ordered`), and when an EOS has been given the runner is gone
  (`EosLast`), hence at rest (`Quiet`).

**`AisctlProofs`**, for any command lines and scenarios, values, strange packets and bounds. Beyond the above it
is assumed that in a scenario at most one command manages, ingests, consumes or chunks, that an ingester and a
user of the sender, or a consumer and a user of `aissrc`, do not share a scenario, as both would own the one sender or
receiver of the model (`ScenariosAssumption`); that the values sent are well formed, which their
constructors see to (`ValuesAssumption`); that strange packets are packets (`StrangeAssumption`); and that a
source and a looped ingester have at least one buffer and one iteration (`IngestAssumption`).

- `AdaptedAsMadeCorrect`, `ImagesKeptCorrect`. `PacketInv`: as long as a program has a packet, it has every
  mark that was put on it, and if it was made of a value, the type, payload and descriptor of that value (`Holds`); and what
  was adapted or converted came from such a packet. The work is in the operators: what `UnpackAs` answers for
  each type (`AdaptsAsMade`, `AdaptsAsNoOther`), that a row is found again after padding (`Rows`, `Divided`, `RoundUp`), and that it is
  `RowStride` which tells padded rows apart, for any image whose bytes fit an `int`. `Readable` and `ImageAborts`
  bound the other outcome: a buffer made of an image is read inside its bytes, and the program dies only of one
  whose padded bytes do not fit.
- `ConnectedAsShownCorrect`. `SenderInv` and `ReceiverInv` have, for each element, what its properties show
  against its connection, and at which places of its owner there is one (`SenderTurns`, `ReceiverTurns`).
  `SenderSteps` and `ReceiverSteps` give what any step of the composition does to them.
- `ShownIsRunOfStreamCorrect`. `Flow`: what was shown, then what is queued, is the run of the log
  between the start and the position of the receiver, and then at most the EOS or the empty packet that ends it
  (`Continues`); what was shown has passed and stays
  (`ShownIsPassed`), because the log only grows.
- `RunsAsAskedCorrect`. `IngestAsked`, `ConsumerAsked`, `MgrAsked` and `ChunkAsked` follow a command line into the
  flags, the launch string, the properties and the call, and compare what arrives with the options as they
  were typed (`ConnectsAsTyped`, `ExportsAsTyped`), not with the flags in between. `Registry` is the agreement of the op ids of
  `python/cli` with the positions in `manager_app.cc`.
- `SessionDeliveredCorrect`. `SessionInv`: while the rpc is open, what was sent is what has been delivered and then
  what is on the wire (`OnItsWay`); a broken rpc leaves a prefix, and a `Finish` that is OK an empty wire. What is
  delivered is counted, so that the proof needs the cardinality of a set that grows by the last element
  (`DeliveredGrows`) and no induction over the log.
- `SourceDeliveredCorrect`. `SourceInv` follows a launch: at each place of `GstLaunchPipeline` and of `aissink` what
  was sent, lost and is left add up to the buffers of the source (`Counted`), and after a stop with an EOS and
  without an error the EOS is the last that was sent (`Ended`). With `SessionInv` that is the property.

**Only model-checked.** Liveness: `NoStuckWaiter`, `TimedCallsReturn`, `AutoFallsBack`, `Delivered`,
`WorkerEnds`, `EosReachesCaller`, `RunReturns`, `CompletionSeen`, `DestructorReturns` and `CommandsEnd` are about what
must eventually happen under fairness, hence about ENABLED, which the prover does not handle. All
other properties of the passing runs are theorems.

## 6. Where the code and its documents disagree

- **A streaming rpc that ends with OK** (`base/packet_receiver.cc:260`). `packet_receiver.h:85`
  says that `Receive` "blocks until a packet is available or when an error occurs". The
  server ends an rpc with OK when its `timeout` has passed; `StreamingReceive` then returns
  OK without a packet. Run `packet_receiver_ok_end`. The worker of `MakePacketReceiverQueue` takes the packet it
  made for the call for one that was received and pushes it (`base/wrappers/receivers.cc:80-92`), although
  `receivers.h:66-67` says that "Packets that arrive either contain data or represent EOS"; its next `Receive`
  calls `Finish` on the finished rpc, on which gRPC aborts the process. `OrderedGapless` and
  `ShownIsRunOfStream` say that this one empty packet is all that comes of it before the abort.
- **A worker past its deadline** (`gstreamer/gstreamer_video_exporter.cc:258`). `Join` is
  documented to "let the worker keep working"; the object, its channels and its signal are
  destroyed when `Run` returns, and the detached thread uses them. Run
  `video_exporter_detached`.
- **The header of the first frame** (`cc/decoded_receivers.cc:95`). A comment promises that a decoded
  frame recovers its own header; the first packet is fed without its header being queued,
  so that all images are one off. Run `decoded_receiver_header`.
- **A caller that releases a full image queue** (`cc/decoded_receivers.cc:173`). A comment promises that
  the worker then terminates; it waits for space for its EOS for ever. Run
  `decoded_receiver_release`. The worker of `MakePacketReceiverQueue` has the same wait
  (`StuckOnEos`), but no document promises otherwise.
- **A pipeline that cannot be created** (`gstreamer/gstreamer_runner.cc:322`). `Create` is
  written to return "Failed to create a gstreamer runner". `Initialize` returns before there is a
  completion signal, the half-made runner is destroyed, and its `Finalize` uses the signal that
  is not there. Run `gstreamer_runner_create`.

Further observations, for which there is no run of their own. The first three contradict a document:

- `decoded_receivers.h:35-37` promises an EOS when the source has nothing more. When the decoder loses frames,
  their headers stay in the side queue; once it is full of them, the worker waits in `Feed` for space that
  nobody makes (`cc/decoded_receivers.cc:192`), and no longer sees what the source does. `EosReachesCaller`
  excepts this state by name (`StuckOnHeader`), and TLC refutes it without the exception.

- `playback_app.cc:44` calls the duration of a playback the maximum amount of time to play back. The
  stopper's EOS event is seen between two creates, and `create` blocks in the receiver queue
  (`aissrc.c:428`); the element implements no `unlock`. With a timeout of -1 and a silent
  stream the application does not end: `CommandsEnd` asks this only of a consumer with a timeout, and
  TLC refutes `eosEvent["playback_app"] ~> (conAt = "exited")` for one without.
- `replay_app.cc:42` offers an offset and a timestamp as position types 2 and 3; `reset_offset` is set
  for types 0 and 1 only (line 63), and without it the receiver ignores the position
  (`base/offset_options.h:39`). `Seek` in `Consumers` is what the receiver asks for.
- The padded size of an image is an unchecked product of ints (`gstreamer/type_utils.cc:195-198`), although the
  size of the image itself was checked: an image one pixel wide with more than 2^31 / 4 rows is well formed, and
  `resize` throws on the negative size. `ImagesKept` names the case (`PaddingOverflows`), and TLC shows that it
  is reached.
- The saver may leave frames in its channel when its poll times out just before the source
  completes (`FramesAccounted` keeps them visible). The bus watch of a destroyed runner may still be
  dispatched by the loop of another runner that popped the message before (`stray`). A second
  `SignalEOS` gives a second EOS. A sample that is no raw image ends the process in `ValueOrDie`
  (`TakeBadImage`).
- `GstLaunchPipeline` returns OK after an ERROR on the bus, so that `ingester_app --loop` plays on; when
  `set_state` fails it neither stops nor unrefs the pipeline; its stopper may wake when the pipeline
  is gone.
- After a `stop` the string properties of `aissrc` and `aissink` cannot be set any more, because the
  deleted handle is still taken for a connection; the booleans can be set at any time.
- Every iteration of an ingester ends with an EOS packet, which ends the stream for its receivers. The
  worker's own EOS makes `printer_app` return OK when its rpc has failed.
- `ingester_app` asks for an element `h264enc` when it has to encode, which GStreamer's own plugins do not
  provide.
- `manager_app`, `ingester_app`, `printer_app` and `chunker_app` exit with 0 when they failed. `aisctl`
  accepts `--stream-retention-seconds` for an on-prem stream and does not pass it on.
  `CreateCluster` returns the cluster it was given, not the one the server made. An on-prem
  manager waits for its rpc without a deadline. A failure to get an ID token leaves the rpc without
  one. The timeout of `chunker_app` does not reach the receiver of its stream source.
- The stop conditions of `replay_app` capture locals of a block that has ended when they are called
  (`replay_app.cc:72`, `82`, `95`): the model lets them answer either way.

## 7. What is not modelled

- The stream server, the managed service and GStreamer itself: external, modelled as far as their
  clients depend on them. What a pipeline other than a runner's does between its source and its
  end is a source of a few buffers (`Ingester`), or an element that may fail (`Consumers`).
- `Status`, `StatusOr` and their macros (`util/status/`): a value type and macros that return it; no
  state that several steps share. In the models it is the outcome of an action.
- Reading and writing PPM files (`base/util/raw_image_utils.cc`), which nothing here calls; the
  time stamp of a packet, which only a stop condition of `replay_app` reads, its trace context, which only
  tracing reads, and the reason of an EOS. How GStreamer reads caps with negative
  or absent sizes is not followed: such caps are of no raw image, or of one whose constructor dies.
- The abort of a process whose receiver finishes an rpc twice, where it is not the only one to suffer:
  `PacketReceiverQueue` and the consumers of `Aisctl` have it; a decoded receiver and an exporter with a
  stream source have such a worker below them and die with it, which their modules do not show.
- A receiver's worker that outlives the queue of an `aissrc`: whether and when it ends is the matter of
  `PacketReceiverQueue`, and `AisSrc` forgets it with the handle.
- Two uses of what is gone are noted and not followed: the stopper of `GstLaunchPipeline` posts to a
  pipeline that may have been unreferenced (`gstreamer/gstreamer_utils.cc:77`), and the stop conditions of
  `replay_app` refer to locals of a block that has ended (`python/apps/replay_app.cc:72`), which the model
  lets answer either way.
- Tracing (`trace/`): spans exported by a library. Its map of samplers is shared between threads
  without a lock (`trace/instrumentation.cc:38`), but nothing the models know reads it.
- File, path, random string and stack helpers (`util/`): sequential wrappers; their failures are
  outcomes of the actions that use them.
- The contents of packets, file names, object names in GCS, messages of statuses, logging, help
  texts and what the applications print.
- Real time, with one exception. A timeout is an event that may occur when the code lets it;
  durations are not compared with each other. The exception is the sum of the waits in
  `WaitOperation`, which the code documents.
- The state of a process after undefined behaviour: where a destroyed object is used, the models record
  it (`stray`, `DetachedStep`) and stop there.
- The packaging scripts, the mocks and the build files.

## 8. The plan

Done: every component of the table in section 1 that keeps state, each with its runs; and a theorem for each
safety property of the runs.

Left, in order of importance:

1. Proofs about the composition: that `AisSrc` implements what `PacketReceiverQueue` promises, and that the
   decoder in `VideoExporter` implements `ImageYielder`, by refinements instead of by reference; the type
   invariants of the modules below `Aisctl` as theorems of their own.
2. `GstreamerVideoWriter` above `GstreamerRunner` as `RawImageYielder` is: so far only its calls to
   the runner that the exporter's saver depends on.
3. `Chunker` composed with `VideoExporter`, to carry `RunsAsAsked` through to the files that are written.
