---------------------------- MODULE VideoExporter ----------------------------
(***************************************************************************)
(* GstreamerVideoExporter::Run (gstreamer/gstreamer_video_exporter.cc) and  *)
(* the dataflow of Workers it builds:                                       *)
(*                                                                          *)
(*    source --(images)--> LocalVideoSaver --(paths)--> GcsUploader         *)
(*                                                                          *)
(* The source is a StreamServerSource or a GstreamerInputSource.  Each      *)
(* Worker is a thread with a CompletionSignal; a Channel is a               *)
(* ProducerConsumerQueue (used through its promise: an atomic FIFO) whose   *)
(* two ends can ask whether the other has completed.  A worker that polls   *)
(* does so in two steps, a TryPop that times out and then a look at the     *)
(* signal, and the other thread may do anything in between.                 *)
(*                                                                          *)
(* An image is the number of the decoded frame, a path the number of the    *)
(* video file.                                                              *)
(***************************************************************************)
EXTENDS Integers, Sequences, FiniteSets, SequencesExt

CONSTANTS max_frames_per_file,
          working_buffer_size,  \* the capacity of either channel
          LastFrame             \* bound: frames that the source ever has

ASSUME OptionsAssumption ==
    max_frames_per_file \in Nat \ {0} /\ working_buffer_size \in Nat \ {0}

ASSUME BoundAssumption == LastFrame \in Nat

VARIABLES
    options,       \* use_gstreamer_input_source, upload_to_gcs, keep_local
    run,           \* where Run is
    errors,        \* Run has seen the status of a worker that is not OK
    is_completed_, \* the completion signals
    status,        \* what WorkImpl returns, read by Run once it has completed
    pc,            \* where a worker thread is
    images,        \* raw_image_channel
    fed,           \* frames fed to the decoder
    decoded,       \* frames that have come out of it, or of the input pipeline
    current,       \* the frames in the saver's open video file
    files,         \* history: the finished files, each a sequence of frames
    paths,         \* file_path_channel
    disk,          \* the finished files on the local disk
    uploaded,      \* history: the files that are in the GCS bucket
    dropped,       \* history: frames that found the image channel full, or
                   \* were no image
    removed        \* history: frames of a file that the saver gave up

signals == <<is_completed_, status>>
source  == <<fed, decoded, dropped>>
saver   == <<current, files, removed>>
gcs     == <<uploaded, disk>>
vars    == <<options, run, errors, signals, pc, images, source, saver, paths, gcs>>

Workers   == {"source", "saver", "uploader"}
Frames    == 1 .. LastFrame
Eos       == 0    \* NotFoundError("Reached EOS."), in either channel
BadImage  == -1   \* another error, from ToRawImage
EmptyPath == -1   \* output_video_file_path of a file that was never opened

Init ==
    /\ options \in [gst : BOOLEAN, upload : BOOLEAN, keep : BOOLEAN]
    /\ run = "work_uploader" /\ errors = FALSE
    /\ is_completed_ = [w \in Workers |-> TRUE]
    /\ status = [w \in Workers |-> "ok"]
    /\ pc = [w \in Workers |-> "idle"]
    /\ images = <<>> /\ fed = 0 /\ decoded = 0 /\ dropped = {}
    /\ current = <<>> /\ files = <<>> /\ removed = {}
    /\ paths = <<>> /\ disk = {} /\ uploaded = {}

\* pcqueue()->TryEmplace: dropped when the channel is full.
TryEmplace(channel, x) ==
    IF Len(channel) < working_buffer_size THEN Append(channel, x) ELSE channel

-----------------------------------------------------------------------------
(* Worker.                                                                  *)

\* Run has not returned: the objects that the threads use are alive.
Alive == run \notin {"ok", "error", "aborted", "undefined"}

At(w, where) == Alive /\ pc[w] = where

Goto(w, where) == pc' = [pc EXCEPT ![w] = where]

\* WorkImpl returns early: the preconditions, and for a source or the uploader
\* also a connection, a first packet or a pipeline that cannot be had.
Fails(w) ==
    /\ At(w, "start")
    /\ status' = [status EXCEPT ![w] = "error"]
    /\ Goto(w, "end")
    /\ UNCHANGED <<options, run, errors, is_completed_, images, source, saver, paths, gcs>>

\* The lambda of Work() after WorkImpl: SetStatus and End.
End(w) ==
    /\ At(w, "end")
    /\ is_completed_' = [is_completed_ EXCEPT ![w] = TRUE]
    /\ Goto(w, "over")
    /\ UNCHANGED <<options, run, errors, status, images, source, saver, paths, gcs>>

\* TryPop has waited five seconds on an empty channel.
TryPopTimesOut(w, channel) ==
    /\ At(w, "pop") /\ channel = <<>>
    /\ Goto(w, "timeout")
    /\ UNCHANGED <<options, run, errors, signals, images, source, saver, paths, gcs>>

\* Mutant: the loop around TryPop ends only with an EOS.
IsSrcCompletedIgnored(w, src, last) ==
    /\ At(w, "timeout")
    /\ Goto(w, "pop")
    /\ UNCHANGED <<options, run, errors, signals, images, source, saver, paths, gcs>>

\* IsSrcCompleted, asked after the timeout: w makes do with a NotFound of its
\* own, whatever has been put into the channel since, or pops again.
IsSrcCompleted(w, src, last) ==
    /\ At(w, "timeout")
    /\ Goto(w, IF is_completed_[src] THEN last ELSE "pop")
    /\ UNCHANGED <<options, run, errors, signals, images, source, saver, paths, gcs>>

-----------------------------------------------------------------------------
(* The sources.                                                             *)

\* ConnectAndWarmup has fed the first packet; or the input pipeline runs.
SourceStarts ==
    /\ At("source", "start")
    /\ options.gst \/ fed < LastFrame
    /\ fed' = IF options.gst THEN fed ELSE fed + 1
    /\ Goto("source", IF options.gst THEN "receive" ELSE "check")
    /\ UNCHANGED <<options, run, errors, signals, images, decoded, dropped, saver, paths, gcs>>

\* GstreamerRawImageYielder::Create fails: what it has made so far is destroyed,
\* and signals EOS.
YielderFails ==
    /\ At("source", "start") /\ ~options.gst
    /\ images' = TryEmplace(images, Eos)
    /\ status' = [status EXCEPT !["source"] = "error"]
    /\ Goto("source", "end")
    /\ UNCHANGED <<options, run, errors, is_completed_, source, saver, paths, gcs>>

\* while (!out_channel()->IsDstCompleted()): not asked again while the source
\* waits for its next packet.
IsDstCompleted ==
    /\ At("source", "check")
    /\ Goto("source", IF is_completed_["saver"] THEN "eos" ELSE "receive")
    /\ UNCHANGED <<options, run, errors, signals, images, source, saver, paths, gcs>>

FeedPacket ==
    /\ At("source", "receive") /\ ~options.gst /\ fed < LastFrame
    /\ fed' = fed + 1
    /\ Goto("source", "check")
    /\ UNCHANGED <<options, run, errors, signals, images, decoded, dropped, saver, paths, gcs>>

\* An EOS ends the loop (OK), and so does a packet that does not come in time,
\* is no gstreamer buffer or cannot be fed (an error).  The input pipeline
\* ends, with or without an error that nobody asks for.
SourceStops ==
    /\ At("source", "receive")
    /\ \E s \in IF options.gst THEN {"ok"} ELSE {"ok", "error"} :
          status' = [status EXCEPT !["source"] = s]
    /\ Goto("source", "eos")
    /\ UNCHANGED <<options, run, errors, is_completed_, images, source, saver, paths, gcs>>

\* A frame comes out, in a gstreamer thread.  The decoder of the stream source
\* is gone once SignalEOS is done with it.  The input pipeline lives until
\* WorkImpl has returned; its callback cancels it if the saver has completed.
Decoding ==
    \/ /\ ~options.gst /\ decoded < fed
       /\ Alive /\ pc["source"] \in {"check", "receive", "eos"}
    \/ /\ options.gst /\ decoded < LastFrame /\ ~is_completed_["saver"]
       /\ Alive /\ pc["source"] \in {"receive", "eos", "end"}

\* The callback pushes the frame and drops it when the channel is full.
PushImage ==
    /\ Decoding
    /\ decoded' = decoded + 1
    /\ images' = TryEmplace(images, decoded + 1)
    /\ dropped' = IF images' = images THEN dropped \cup {decoded + 1} ELSE dropped
    /\ UNCHANGED <<options, run, errors, signals, pc, fed, saver, paths, gcs>>

\* ToRawImage fails: the yielder passes the error on.
PushBadImage ==
    /\ Decoding /\ ~options.gst
    /\ decoded' = decoded + 1
    /\ images' = TryEmplace(images, BadImage)
    /\ dropped' = dropped \cup {decoded + 1}
    /\ UNCHANGED <<options, run, errors, signals, pc, fed, saver, paths, gcs>>

\* SignalEOS, or the end of GstreamerInputSource::WorkImpl.
SignalEOS ==
    /\ At("source", "eos")
    /\ images' = TryEmplace(images, Eos)
    /\ Goto("source", "end")
    /\ UNCHANGED <<options, run, errors, signals, source, saver, paths, gcs>>

Source     == \/ Fails("source") \/ YielderFails \/ SourceStarts
              \/ IsDstCompleted \/ FeedPacket \/ SourceStops
SourceEnds == SignalEOS \/ End("source")

-----------------------------------------------------------------------------
(* LocalVideoSaver.                                                         *)

SaverStarts ==
    /\ At("saver", "start")
    /\ Goto("saver", "pop")
    /\ UNCHANGED <<options, run, errors, signals, images, source, saver, paths, gcs>>

PopImage(x) ==
    /\ At("saver", "pop") /\ images # <<>> /\ Head(images) = x
    /\ images' = Tail(images)

TakeEos ==
    /\ PopImage(Eos)
    /\ Goto("saver", "finish_last")
    /\ UNCHANGED <<options, run, errors, signals, source, saver, paths, gcs>>

\* ValueOrDie on an error that is not NotFound ends the process.
TakeBadImage ==
    /\ PopImage(BadImage)
    /\ run' = "aborted"
    /\ UNCHANGED <<options, errors, signals, pc, source, saver, paths, gcs>>

\* Mutants: a file gets one frame too many; the frame that opens a file is
\* written twice.
WriteImageOneMore ==
    \E n \in Frames :
       /\ PopImage(n)
       /\ current' = Append(current, n)
       /\ Goto("saver", IF Len(current) <= max_frames_per_file THEN "pop" ELSE "finish")
       /\ UNCHANGED <<options, run, errors, signals, source, files, removed, paths, gcs>>

WriteImageTwice ==
    \E n \in Frames :
       /\ PopImage(n)
       /\ current' = IF current = <<>> THEN <<n, n>> ELSE Append(current, n)
       /\ Goto("saver", IF Len(current') < max_frames_per_file THEN "pop" ELSE "finish")
       /\ UNCHANGED <<options, run, errors, signals, source, files, removed, paths, gcs>>

\* The image is put into the current file, which is opened for the first one
\* and complete after max_frames_per_file.
WriteImage ==
    \E n \in Frames :
       /\ PopImage(n)
       /\ current' = Append(current, n)
       /\ Goto("saver", IF Len(current') < max_frames_per_file THEN "pop" ELSE "finish")
       /\ UNCHANGED <<options, run, errors, signals, source, files, removed, paths, gcs>>

\* The conversion, the writer or the write fails: the file is removed, and the
\* saver stops.
WriteImageFails ==
    \E n \in Frames :
       /\ PopImage(n)
       /\ removed' = removed \cup {n} \cup Range(current)
       /\ current' = <<>>
       /\ status' = [status EXCEPT !["saver"] = "error"]
       /\ Goto("saver", "eos")
       /\ UNCHANGED <<options, run, errors, is_completed_, source, files, paths, gcs>>

\* The file is flushed and its path forwarded.  A file that never had a frame
\* has an empty path, which is forwarded like any other.
FinishFile ==
    /\ At("saver", "finish") \/ At("saver", "finish_last")
    /\ LET path == IF current = <<>> THEN EmptyPath ELSE Len(files) + 1
           next == IF pc["saver"] = "finish" THEN "pop" ELSE "eos"
       IN  /\ files' = IF current = <<>> THEN files ELSE Append(files, current)
           /\ disk' = disk \cup ({path} \ {EmptyPath})
           /\ \/ ~options.upload /\ Goto("saver", next) /\ UNCHANGED paths
              \/ /\ options.upload /\ ~is_completed_["uploader"]
                 /\ paths' = TryEmplace(paths, path)
                 /\ Goto("saver", next)
              \/ options.upload /\ is_completed_["uploader"] /\ Goto("saver", "eos") /\ UNCHANGED paths
    /\ current' = <<>>
    /\ UNCHANGED <<options, run, errors, signals, images, source, removed, uploaded>>

ForwardEos ==
    /\ At("saver", "eos")
    /\ paths' = IF options.upload THEN TryEmplace(paths, Eos) ELSE paths
    /\ Goto("saver", "end")
    /\ UNCHANGED <<options, run, errors, signals, images, source, saver, gcs>>

Saver ==
    \/ Fails("saver") \/ SaverStarts \/ TakeEos \/ TakeBadImage \/ WriteImage \/ WriteImageFails
    \/ TryPopTimesOut("saver", images) \/ IsSrcCompleted("saver", "source", "finish_last")
    \/ FinishFile \/ ForwardEos \/ End("saver")

-----------------------------------------------------------------------------
(* GcsUploader.                                                             *)

\* Nothing to do; or a new GCS client.
UploaderStarts ==
    /\ At("uploader", "start")
    /\ Goto("uploader", IF options.upload THEN "pop" ELSE "end")
    /\ UNCHANGED <<options, run, errors, signals, images, source, saver, paths, gcs>>

PopPath ==
    /\ At("uploader", "pop") /\ paths # <<>>
    /\ paths' = Tail(paths)

TakePathEos ==
    /\ PopPath /\ Head(paths) = Eos
    /\ Goto("uploader", "end")
    /\ UNCHANGED <<options, run, errors, signals, images, source, saver, gcs>>

\* An upload succeeds; the local file is removed, if it can be.
Upload ==
    /\ PopPath /\ Head(paths) \notin {Eos, EmptyPath}
    /\ uploaded' = uploaded \cup {Head(paths)}
    /\ disk' \in IF options.keep THEN {disk} ELSE {disk, disk \ {Head(paths)}}
    /\ UNCHANGED <<options, run, errors, signals, pc, images, source, saver>>

\* Mutant: the local file is removed before the outcome is looked at.
UploadFailsRemoved ==
    /\ PopPath /\ Head(paths) # Eos
    /\ disk' = IF options.keep THEN disk ELSE disk \ {Head(paths)}
    /\ Goto("uploader", "start")
    /\ UNCHANGED <<options, run, errors, signals, images, source, saver, uploaded>>

\* An upload fails, as that of an empty path always does: go on with a new
\* client, and with the next path.
UploadFails ==
    /\ PopPath /\ Head(paths) # Eos
    /\ Goto("uploader", "start")
    /\ UNCHANGED <<options, run, errors, signals, images, source, saver, gcs>>

Uploader ==
    \/ options.upload /\ Fails("uploader")
    \/ UploaderStarts \/ TakePathEos \/ Upload \/ UploadFails
    \/ TryPopTimesOut("uploader", paths) \/ IsSrcCompleted("uploader", "saver", "end")
    \/ End("uploader")

-----------------------------------------------------------------------------
(* Run.                                                                     *)

\* Worker::Work: Start, and the thread.
Work(w, at, next) ==
    /\ run = at
    /\ run' = next
    /\ is_completed_' = [is_completed_ EXCEPT ![w] = FALSE]
    /\ Goto(w, "start")
    /\ UNCHANGED <<options, errors, status, images, source, saver, paths, gcs>>

\* Join has returned true: take the status of the worker.
Join(w, at, next) ==
    /\ run = at /\ is_completed_[w]
    /\ errors' = (errors \/ status[w] # "ok")
    /\ run' = IF next # "return" THEN next ELSE IF errors' THEN "error" ELSE "ok"
    /\ UNCHANGED <<options, signals, pc, images, source, saver, paths, gcs>>

\* Mutant: a worker that misses the deadline is no error.
JoinTimesOutQuietly(w, at, next) ==
    /\ run = at /\ ~is_completed_[w]
    /\ run' = IF next # "return" THEN next ELSE IF errors THEN "error" ELSE "ok"
    /\ UNCHANGED <<options, errors, signals, pc, images, source, saver, paths, gcs>>

\* finalization_deadline has passed: DeadlineExceededError, "It will be
\* detached."  The source is joined without a deadline.
JoinTimesOut(w, at, next) ==
    /\ run = at /\ ~is_completed_[w]
    /\ errors' = TRUE
    /\ run' = IF next # "return" THEN next ELSE "error"
    /\ UNCHANGED <<options, signals, pc, images, source, saver, paths, gcs>>

\* The worker objects were destroyed when Run returned, and their threads
\* detached: what such a thread does next is undefined.
DetachedStep(w) ==
    /\ run \in {"ok", "error"} /\ pc[w] \notin {"idle", "over"}
    /\ run' = "undefined"
    /\ UNCHANGED <<options, errors, signals, pc, images, source, saver, paths, gcs>>

Run ==
    \/ Work("uploader", "work_uploader", "work_saver")
    \/ Work("saver", "work_saver", "work_source")
    \/ Work("source", "work_source", "join_source")
    \/ Join("source", "join_source", "join_saver")
    \/ Join("saver", "join_saver", "join_uploader")
    \/ Join("uploader", "join_uploader", "return")

Deadlines ==
    \/ JoinTimesOut("saver", "join_saver", "join_uploader")
    \/ JoinTimesOut("uploader", "join_uploader", "return")

Next ==
    \/ Source \/ SourceEnds \/ PushImage \/ PushBadImage
    \/ Saver
    \/ Uploader
    \/ Run \/ Deadlines \/ \E w \in Workers : DetachedStep(w)

Spec == Init /\ [][Next]_vars

\* The threads run.  A source may go on as long as it likes, and no deadline
\* has to pass.
Fairness == WF_vars(SourceEnds) /\ WF_vars(Saver) /\ WF_vars(Uploader) /\ WF_vars(Run)

FairSpec == Spec /\ Fairness

-----------------------------------------------------------------------------
(* Properties.                                                              *)

TypeOK ==
    /\ options \in [gst : BOOLEAN, upload : BOOLEAN, keep : BOOLEAN]
    /\ run \in {"work_uploader", "work_saver", "work_source", "join_source", "join_saver",
                "join_uploader", "ok", "error", "aborted", "undefined"}
    /\ errors \in BOOLEAN
    /\ is_completed_ \in [Workers -> BOOLEAN] /\ status \in [Workers -> {"ok", "error"}]
    /\ pc \in [Workers -> {"idle", "start", "check", "receive", "pop", "timeout", "finish",
                           "finish_last", "eos", "end", "over"}]
    /\ images \in Seq(Frames \cup {Eos, BadImage}) /\ Len(images) <= working_buffer_size
    /\ paths \in Seq(Nat \cup {EmptyPath}) /\ Len(paths) <= working_buffer_size
    /\ fed \in 0 .. LastFrame /\ decoded \in 0 .. LastFrame
    /\ current \in Seq(Frames) /\ files \in Seq(Seq(Frames))
    /\ disk \subseteq Nat /\ uploaded \subseteq Nat
    /\ dropped \subseteq Frames /\ removed \subseteq Frames
    /\ \A w \in Workers : is_completed_[w] <=> pc[w] \in {"idle", "over"}

\* Where the saver's images are, oldest first: the finished files, the open one
\* and the channel.
Held == Append(Append(files, current), images)

\* Every frame that has been decoded is in one place: in a finished file, in
\* the open one, in the channel, or among those dropped at a full channel or
\* removed with a failed file.  Those kept are in the order of the source, also
\* from one file to the next (PushImage against WriteImage and FinishFile).
FramesAccounted ==
    /\ {n \in Frames : \E i \in DOMAIN Held : n \in Range(Held[i])}
           = (1 .. decoded) \ (dropped \cup removed)
    /\ \A i, j \in DOMAIN Held : \A k \in DOMAIN Held[i], l \in DOMAIN Held[j] :
           /\ i < j \/ (i = j /\ k < l)
           /\ Held[i][k] \in Frames /\ Held[j][l] \in Frames
           => Held[i][k] < Held[j][l]

\* gstreamer_video_exporter.h:48, "Maximum number of frames saved into each
\* video file": none has more, and none but the last has fewer or is empty.
FilesFilled ==
    \A f \in DOMAIN files :
        /\ Len(files[f]) \in 1 .. max_frames_per_file
        /\ f < Len(files) => Len(files[f]) = max_frames_per_file

\* A finished video is on the local disk or in the bucket, whatever fails, is
\* dropped at a full channel or is left behind: GcsUploader removes a file only
\* after its upload.
VideoSafe == \A f \in DOMAIN files : f \in disk \cup uploaded

\* When Run returns OK nothing goes on behind its back: every worker has ended
\* without an error, and every frame the saver took is in a finished file.
OkMeansDone ==
    run = "ok" =>
        /\ \A w \in Workers : pc[w] = "over" /\ status[w] = "ok"
        /\ current = <<>> /\ removed = {}

\* Once the source has stopped the other workers end by themselves, and Run
\* returns without any deadline: also when an EOS was dropped at a full
\* channel, or was never sent.
RunReturns == (pc["source"] \in {"eos", "end", "over"}) ~> ~Alive

\* Worker::Join, gstreamer_video_exporter.cc:168: "Otherwise, let the worker
\* keep working and return false."
KeepsWorking == run # "undefined"
=============================================================================
