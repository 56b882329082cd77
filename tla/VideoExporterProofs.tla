------------------------- MODULE VideoExporterProofs -------------------------
(* Proofs about VideoExporter, for any sizes of its files and channels and   *)
(* any source.                                                              *)
EXTENDS VideoExporter, SequenceTheorems, TLAPS

Places == {"idle", "start", "check", "receive", "pop", "timeout", "finish",
           "finish_last", "eos", "end", "over"}

\* Where Run is tells which threads have been started.
Stages ==
    /\ run = "work_uploader" => \A w \in Workers : pc[w] = "idle"
    /\ run = "work_saver" =>
           pc["source"] = "idle" /\ pc["saver"] = "idle" /\ pc["uploader"] # "idle"
    /\ run = "work_source" =>
           pc["source"] = "idle" /\ pc["saver"] # "idle" /\ pc["uploader"] # "idle"
    /\ run \in {"join_source", "join_saver", "join_uploader"} =>
           \A w \in Workers : pc[w] # "idle"

\* As long as Run has seen no error, what it has joined is over and went well.
EndedWell(w) == pc[w] = "over" /\ status[w] = "ok"
Joined ==
    /\ run \in {"join_saver", "join_uploader"} /\ ~errors => EndedWell("source")
    /\ run = "join_uploader" /\ ~errors => EndedWell("saver")
    /\ run = "ok" => \A w \in Workers : EndedWell(w)

\* The saver closes a file that is not full only as its last.
Filling ==
    /\ pc["saver"] \in {"idle", "start", "eos", "end", "over"} => current = <<>>
    /\ pc["saver"] = "finish" => Len(current) = max_frames_per_file
    /\ pc["saver"] # "finish" => Len(current) < max_frames_per_file
    /\ pc["saver"] \notin {"eos", "end", "over"} =>
           \A f \in 1 .. Len(files) : Len(files[f]) = max_frames_per_file
    /\ status["saver"] = "ok" => removed = {}

Inv == Stages /\ Joined /\ Filling /\ FilesFilled /\ VideoSafe

-----------------------------------------------------------------------------
(* Channels and threads.                                                    *)

LEMMA TailOf ==
    ASSUME NEW S, NEW s \in Seq(S), s # <<>>
    PROVE  /\ Head(s) \in S /\ Tail(s) \in Seq(S)
           /\ Len(s) \in Nat /\ Len(Tail(s)) = Len(s) - 1
BY HeadTailProperties, LenProperties, EmptySeq

LEMMA AppendOf ==
    ASSUME NEW S, NEW s \in Seq(S), NEW x \in S
    PROVE  /\ Append(s, x) \in Seq(S) /\ Len(s) \in Nat /\ Len(Append(s, x)) = Len(s) + 1
           /\ \A k \in 1 .. Len(s) : Append(s, x)[k] = s[k]
           /\ Append(s, x)[Len(s) + 1] = x
           /\ \A k \in 1 .. Len(s) + 1 : k \in 1 .. Len(s) \/ k = Len(s) + 1
BY AppendProperties, LenProperties

\* Nothing is put into a full channel.
LEMMA EmplaceType ==
    ASSUME NEW S, NEW s \in Seq(S), NEW x \in S, Len(s) <= working_buffer_size
    PROVE  TryEmplace(s, x) \in Seq(S) /\ Len(TryEmplace(s, x)) <= working_buffer_size
<1>1. CASE Len(s) < working_buffer_size
    <2>1. Append(s, x) \in Seq(S) /\ Len(s) \in Nat /\ Len(Append(s, x)) = Len(s) + 1
        BY AppendOf
    <2>. QED
        BY <1>1, <2>1, OptionsAssumption DEF TryEmplace
<1>2. CASE ~(Len(s) < working_buffer_size)
    BY <1>2 DEF TryEmplace
<1>. QED
    BY <1>1, <1>2

LEMMA GotoType ==
    ASSUME pc \in [Workers -> Places], NEW w \in Workers, NEW where \in Places, Goto(w, where)
    PROVE  /\ pc' \in [Workers -> Places] /\ pc'[w] = where
           /\ \A v \in Workers : v # w => pc'[v] = pc[v]
BY DEF Goto

\* Apart from pc, its own status and signal, a thread changes what TypeOK says of
\* the data only.
ChannelsOK ==
    /\ images \in Seq(Frames \cup {Eos, BadImage}) /\ Len(images) <= working_buffer_size
    /\ paths \in Seq(Nat \cup {EmptyPath}) /\ Len(paths) <= working_buffer_size
DataOK ==
    /\ fed \in 0 .. LastFrame /\ decoded \in 0 .. LastFrame
    /\ current \in Seq(Frames) /\ files \in Seq(Seq(Frames))
    /\ disk \subseteq Nat /\ uploaded \subseteq Nat
    /\ dropped \subseteq Frames /\ removed \subseteq Frames
RunOK ==
    /\ options \in [gst : BOOLEAN, upload : BOOLEAN, keep : BOOLEAN]
    /\ run \in {"work_uploader", "work_saver", "work_source", "join_source", "join_saver",
                "join_uploader", "ok", "error", "aborted", "undefined"}
    /\ errors \in BOOLEAN
ThreadsOK ==
    /\ is_completed_ \in [Workers -> BOOLEAN] /\ status \in [Workers -> {"ok", "error"}]
    /\ pc \in [Workers -> Places]
    /\ \A w \in Workers : is_completed_[w] <=> pc[w] \in {"idle", "over"}

LEMMA TypeParts == TypeOK <=> RunOK /\ ThreadsOK /\ ChannelsOK /\ DataOK
BY DEF TypeOK, RunOK, ThreadsOK, ChannelsOK, DataOK, Places

LEMMA NextTypeParts == RunOK' /\ ThreadsOK' /\ ChannelsOK' /\ DataOK' => TypeOK'
BY DEF TypeOK, RunOK, ThreadsOK, ChannelsOK, DataOK, Places

LEMMA InitType == Init => TypeOK
<1> SUFFICES ASSUME Init PROVE TypeOK
    OBVIOUS
<1>1. ChannelsOK /\ DataOK
    BY EmptySeq, OptionsAssumption, BoundAssumption DEF Init, ChannelsOK, DataOK
<1>2. RunOK /\ ThreadsOK
    BY DEF Init, RunOK, ThreadsOK, Places
<1>. QED
    BY <1>1, <1>2, TypeParts

-----------------------------------------------------------------------------
(* Threads: a thread that is at work, and only it, moves.                   *)

Moves(w, place) ==
    /\ Alive /\ run' \in {run, "aborted"} /\ UNCHANGED <<options, errors>>
    /\ pc[w] \notin {"idle", "over"}
    /\ pc'[w] = place /\ pc' \in [Workers -> Places]
    /\ \A v \in Workers : v # w => pc'[v] = pc[v]
    /\ is_completed_' \in [Workers -> BOOLEAN] /\ status' \in [Workers -> {"ok", "error"}]
    /\ \A v \in Workers : v # w => is_completed_'[v] = is_completed_[v] /\ status'[v] = status[v]
    /\ is_completed_'[w] <=> place = "over"

LEMMA MovesType ==
    ASSUME TypeOK, NEW w \in Workers, NEW place \in Places \ {"idle"}, Moves(w, place)
    PROVE  RunOK' /\ ThreadsOK'
<1>. RunOK /\ ThreadsOK
    BY TypeParts
<1>1. RunOK'
    BY DEF Moves, RunOK
<1>2. \A v \in Workers : is_completed_'[v] <=> pc'[v] \in {"idle", "over"}
    BY DEF Moves, ThreadsOK
<1>3. ThreadsOK'
    BY <1>2 DEF Moves, ThreadsOK
<1>. QED
    BY <1>1, <1>3

LEMMA MovesKeeps ==
    ASSUME TypeOK, Stages, Joined, NEW w \in Workers, NEW place \in Places \ {"idle"},
           Moves(w, place)
    PROVE  Stages' /\ Joined'
<1>1. Stages'
    BY DEF Moves, Stages, Alive, Workers
<1>2. Joined'
    BY DEF Moves, Joined, EndedWell, Alive, Workers
<1>. QED
    BY <1>1, <1>2

\* A thread that goes on without an end of its own.
LEMMA GoesOn ==
    ASSUME TypeOK, NEW w \in Workers, Alive, pc[w] \notin {"idle", "over"},
           NEW where \in Places \ {"idle", "over"}, Goto(w, where) \/ (pc' = pc /\ pc[w] = where),
           UNCHANGED <<options, errors, is_completed_>>, run' \in {run, "aborted"},
           \/ status' = status
           \/ \E s \in {"ok", "error"} : status' = [status EXCEPT ![w] = s]
    PROVE  Moves(w, where)
<1>. ThreadsOK
    BY TypeParts
<1>1. pc' \in [Workers -> Places] /\ pc'[w] = where /\ \A v \in Workers : v # w => pc'[v] = pc[v]
    BY GotoType DEF ThreadsOK
<1>2. /\ status' \in [Workers -> {"ok", "error"}]
      /\ \A v \in Workers : v # w => status'[v] = status[v]
    BY DEF ThreadsOK
<1>3. ~is_completed_[w] /\ where # "over"
    BY DEF ThreadsOK
<1>. QED
    BY <1>1, <1>2, <1>3 DEF Moves, ThreadsOK

LEMMA EndMoves == ASSUME TypeOK, NEW w \in Workers, End(w) PROVE Moves(w, "over")
<1>. ThreadsOK
    BY TypeParts
<1>1. "over" \in Places /\ Goto(w, "over")
    BY DEF Places, End
<1>2. pc' \in [Workers -> Places] /\ pc'[w] = "over" /\ \A v \in Workers : v # w => pc'[v] = pc[v]
    BY <1>1, GotoType DEF ThreadsOK
<1>3. /\ is_completed_' \in [Workers -> BOOLEAN] /\ is_completed_'[w] = TRUE
      /\ \A v \in Workers : v # w => is_completed_'[v] = is_completed_[v]
    BY DEF End, ThreadsOK
<1>. QED
    BY <1>2, <1>3 DEF Moves, End, At, ThreadsOK

LEMMA FailsMoves == ASSUME TypeOK, NEW w \in Workers, Fails(w) PROVE Moves(w, "end")
<1>1. "end" \in Places \ {"idle", "over"} /\ Alive /\ pc[w] \notin {"idle", "over"}
      /\ Goto(w, "end") /\ status' = [status EXCEPT ![w] = "error"]
    BY DEF Places, Fails, At
<1>. QED
    BY <1>1, GoesOn DEF Fails

LEMMA TimeOutMoves ==
    ASSUME TypeOK, NEW w \in Workers, NEW channel, TryPopTimesOut(w, channel)
    PROVE  Moves(w, "timeout")
<1>1. "timeout" \in Places \ {"idle", "over"} /\ Alive /\ pc[w] \notin {"idle", "over"}
      /\ Goto(w, "timeout")
    BY DEF Places, TryPopTimesOut, At
<1>. QED
    BY <1>1, GoesOn DEF TryPopTimesOut, signals

-----------------------------------------------------------------------------
(* The source.                                                              *)

SourceStep == Source \/ SourceEnds \/ PushImage \/ PushBadImage

LEMMA SourceMoves ==
    ASSUME TypeOK, SourceStep
    PROVE  \E place \in Places \ {"idle"} : Moves("source", place)
<1>. "source" \in Workers
    BY DEF Workers
<1>1. CASE Fails("source")
    BY <1>1, FailsMoves DEF Places
<1>2. CASE YielderFails \/ SignalEOS
    <2>1. Moves("source", "end")
        BY <1>2, GoesOn DEF YielderFails, SignalEOS, At, Places, signals
    <2>. QED
        BY <2>1 DEF Places
<1>3. CASE SourceStarts \/ IsDstCompleted \/ FeedPacket \/ SourceStops
    <2>1. PICK where \in {"check", "receive", "eos"} : Goto("source", where)
        BY <1>3 DEF SourceStarts, IsDstCompleted, FeedPacket, SourceStops
    <2>2. where \in Places \ {"idle", "over"}
        BY DEF Places
    <2>3. /\ Alive /\ pc["source"] \notin {"idle", "over"} /\ run' = run
          /\ UNCHANGED <<options, errors, is_completed_>>
          /\ \/ status' = status
             \/ \E s \in {"ok", "error"} : status' = [status EXCEPT !["source"] = s]
        BY <1>3 DEF SourceStarts, IsDstCompleted, FeedPacket, SourceStops, At, signals
    <2>4. Moves("source", where)
        BY <2>1, <2>2, <2>3, GoesOn
    <2>. QED
        BY <2>2, <2>4
<1>4. CASE PushImage \/ PushBadImage
    <2>1. pc' = pc /\ Alive /\ pc["source"] \in {"check", "receive", "eos", "end"}
        BY <1>4 DEF PushImage, PushBadImage, Decoding
    <2>2. pc["source"] \in Places \ {"idle", "over"}
        BY <2>1 DEF Places
    <2>3. Moves("source", pc["source"])
        BY <1>4, <2>1, <2>2, GoesOn DEF PushImage, PushBadImage, signals
    <2>. QED
        BY <2>2, <2>3
<1>5. CASE End("source")
    BY <1>5, EndMoves DEF Places
<1>. QED
    BY <1>1, <1>2, <1>3, <1>4, <1>5 DEF SourceStep, Source, SourceEnds

LEMMA SourceData ==
    ASSUME TypeOK, SourceStep
    PROVE  ChannelsOK' /\ DataOK' /\ UNCHANGED <<saver, gcs>>
<1>. ChannelsOK /\ DataOK
    BY TypeParts
<1>0. UNCHANGED <<saver, gcs>> /\ UNCHANGED paths
    BY DEF SourceStep, Source, SourceEnds, Fails, YielderFails, SourceStarts, IsDstCompleted,
           FeedPacket, SourceStops, PushImage, PushBadImage, SignalEOS, End
<1>1. ChannelsOK'
    <2>1. CASE UNCHANGED images
        BY <1>0, <2>1 DEF ChannelsOK
    <2>2. CASE YielderFails \/ SignalEOS
        BY <1>0, <2>2, EmplaceType DEF ChannelsOK, YielderFails, SignalEOS
    <2>3. CASE PushImage \/ PushBadImage
        <3>1. decoded + 1 \in Frames
            BY <2>3, BoundAssumption DEF PushImage, PushBadImage, Decoding, Frames, DataOK
        <3>. QED
            BY <1>0, <2>3, <3>1, EmplaceType DEF ChannelsOK, PushImage, PushBadImage
    <2>. QED
        BY <2>1, <2>2, <2>3 DEF SourceStep, Source, SourceEnds, Fails, SourceStarts,
           IsDstCompleted, FeedPacket, SourceStops, End
<1>2. DataOK'
    <2>1. CASE UNCHANGED source
        BY <1>0, <2>1 DEF DataOK, source, saver, gcs
    <2>2. CASE SourceStarts \/ FeedPacket
        <3>1. fed' \in 0 .. LastFrame
            BY <2>2, BoundAssumption DEF SourceStarts, FeedPacket, DataOK
        <3>. QED
            BY <1>0, <2>2, <3>1 DEF DataOK, SourceStarts, FeedPacket, saver, gcs
    <2>3. CASE PushImage \/ PushBadImage
        <3>1. decoded + 1 \in Frames /\ decoded + 1 \in 0 .. LastFrame
            BY <2>3, BoundAssumption DEF PushImage, PushBadImage, Decoding, Frames, DataOK
        <3>. QED
            BY <1>0, <2>3, <3>1 DEF DataOK, PushImage, PushBadImage, saver, gcs
    <2>. QED
        BY <2>1, <2>2, <2>3 DEF SourceStep, Source, SourceEnds, Fails, YielderFails,
           IsDstCompleted, SourceStops, SignalEOS, End
<1>. QED
    BY <1>0, <1>1, <1>2

-----------------------------------------------------------------------------
(* The saver.                                                               *)

LEMMA SaverMoves ==
    ASSUME TypeOK, Saver
    PROVE  \E place \in Places \ {"idle"} : Moves("saver", place)
<1>. "saver" \in Workers
    BY DEF Workers
<1>1. CASE Fails("saver")
    BY <1>1, FailsMoves DEF Places
<1>2. CASE TryPopTimesOut("saver", images)
    BY <1>2, TimeOutMoves DEF Places
<1>3. CASE End("saver")
    BY <1>3, EndMoves DEF Places
<1>4. CASE TakeBadImage
    <2>1. pc' = pc /\ Alive /\ pc["saver"] = "pop" /\ "pop" \in Places \ {"idle", "over"}
        BY <1>4 DEF TakeBadImage, PopImage, At, Places
    <2>2. Moves("saver", "pop")
        BY <1>4, <2>1, GoesOn DEF TakeBadImage, signals
    <2>. QED
        BY <2>1, <2>2
<1>5. CASE \/ SaverStarts \/ TakeEos \/ WriteImage \/ WriteImageFails
           \/ IsSrcCompleted("saver", "source", "finish_last") \/ FinishFile \/ ForwardEos
    <2>1. PICK where \in {"pop", "finish", "finish_last", "eos", "end"} : Goto("saver", where)
        BY <1>5 DEF SaverStarts, TakeEos, WriteImage, WriteImageFails, IsSrcCompleted, FinishFile,
                    ForwardEos
    <2>2. where \in Places \ {"idle", "over"}
        BY DEF Places
    <2>3. /\ Alive /\ pc["saver"] \notin {"idle", "over"} /\ run' = run
          /\ UNCHANGED <<options, errors, is_completed_>>
          /\ \/ status' = status
             \/ \E s \in {"ok", "error"} : status' = [status EXCEPT !["saver"] = s]
        BY <1>5 DEF SaverStarts, TakeEos, WriteImage, WriteImageFails, IsSrcCompleted, FinishFile,
                    ForwardEos, PopImage, At, signals
    <2>4. Moves("saver", where)
        BY <2>1, <2>2, <2>3, GoesOn
    <2>. QED
        BY <2>2, <2>4
<1>. QED
    BY <1>1, <1>2, <1>3, <1>4, <1>5 DEF Saver

LEMMA SaverData ==
    ASSUME TypeOK, Saver PROVE ChannelsOK' /\ DataOK'
<1>. ChannelsOK /\ DataOK
    BY TypeParts
<1>1. CASE \/ Fails("saver") \/ SaverStarts \/ TryPopTimesOut("saver", images)
           \/ IsSrcCompleted("saver", "source", "finish_last") \/ End("saver")
    BY <1>1 DEF Fails, SaverStarts, TryPopTimesOut, IsSrcCompleted, End, ChannelsOK, DataOK,
                source, saver, gcs
<1>2. CASE TakeEos \/ TakeBadImage
    <2>1. images # <<>> /\ images' = Tail(images) /\ UNCHANGED <<source, saver, paths, gcs>>
        BY <1>2 DEF TakeEos, TakeBadImage, PopImage
    <2>2. images' \in Seq(Frames \cup {Eos, BadImage}) /\ Len(images') <= working_buffer_size
        BY <2>1, TailOf, OptionsAssumption DEF ChannelsOK
    <2>. QED
        BY <2>1, <2>2 DEF ChannelsOK, DataOK, source, saver, gcs
<1>3. CASE WriteImage \/ WriteImageFails
    <2>1. PICK n \in Frames :
            /\ images # <<>> /\ images' = Tail(images)
            /\ current' = Append(current, n) \/ current' = <<>>
            /\ removed' = removed \/ removed' = removed \cup {n} \cup Range(current)
        BY <1>3 DEF WriteImage, WriteImageFails, PopImage
    <2>2. images' \in Seq(Frames \cup {Eos, BadImage}) /\ Len(images') <= working_buffer_size
        BY <2>1, TailOf, OptionsAssumption DEF ChannelsOK
    <2>3. current' \in Seq(Frames)
        <3>1. Append(current, n) \in Seq(Frames)
            BY AppendOf DEF DataOK
        <3>2. <<>> \in Seq(Frames)
            BY EmptySeq
        <3>. QED
            BY <2>1, <3>1, <3>2
    <2>4. Range(current) \subseteq Frames
        BY LenProperties DEF DataOK, Range
    <2>. QED
        BY <1>3, <2>1, <2>2, <2>3, <2>4 DEF WriteImage, WriteImageFails, ChannelsOK, DataOK,
           source, gcs
<1>4. CASE FinishFile
    <2>. DEFINE path == IF current = <<>> THEN EmptyPath ELSE Len(files) + 1
    <2>1. Len(files) \in Nat /\ path \in Nat \cup {EmptyPath}
        BY LenProperties DEF DataOK
    <2>2. /\ files' = files \/ files' = Append(files, current)
          /\ current' = <<>> /\ disk' = disk \cup ({path} \ {EmptyPath})
          /\ paths' = paths \/ paths' = TryEmplace(paths, path)
          /\ UNCHANGED <<images, source, removed, uploaded>>
        BY <1>4 DEF FinishFile
    <2>3. files' \in Seq(Seq(Frames)) /\ current' \in Seq(Frames)
        <3>1. current \in Seq(Frames) /\ files \in Seq(Seq(Frames))
            BY DEF DataOK
        <3>2. Append(files, current) \in Seq(Seq(Frames))
            BY <3>1, AppendProperties
        <3>3. <<>> \in Seq(Frames)
            BY EmptySeq
        <3>. QED
            BY <2>2, <3>1, <3>2, <3>3
    <2>4. disk' \subseteq Nat
        BY <2>1, <2>2 DEF DataOK
    <2>5. paths' \in Seq(Nat \cup {EmptyPath}) /\ Len(paths') <= working_buffer_size
        BY <2>1, <2>2, EmplaceType DEF ChannelsOK
    <2>. QED
        BY <2>2, <2>3, <2>4, <2>5 DEF ChannelsOK, DataOK, source
<1>5. CASE ForwardEos
    <2>1. Eos \in Nat \cup {EmptyPath}
        BY DEF Eos
    <2>2. paths' \in Seq(Nat \cup {EmptyPath}) /\ Len(paths') <= working_buffer_size
        BY <1>5, <2>1, EmplaceType DEF ForwardEos, ChannelsOK
    <2>. QED
        BY <1>5, <2>2 DEF ForwardEos, ChannelsOK, DataOK, source, saver, gcs
<1>. QED
    BY <1>1, <1>2, <1>3, <1>4, <1>5 DEF Saver

-----------------------------------------------------------------------------
(* The uploader.                                                            *)

LEMMA UploaderMoves ==
    ASSUME TypeOK, Uploader
    PROVE  \E place \in Places \ {"idle"} : Moves("uploader", place)
<1>. "uploader" \in Workers
    BY DEF Workers
<1>1. CASE Fails("uploader")
    BY <1>1, FailsMoves DEF Places
<1>2. CASE TryPopTimesOut("uploader", paths)
    BY <1>2, TimeOutMoves DEF Places
<1>3. CASE End("uploader")
    BY <1>3, EndMoves DEF Places
<1>4. CASE Upload
    <2>1. pc' = pc /\ Alive /\ pc["uploader"] = "pop" /\ "pop" \in Places \ {"idle", "over"}
        BY <1>4 DEF Upload, PopPath, At, Places
    <2>2. Moves("uploader", "pop")
        BY <1>4, <2>1, GoesOn DEF Upload, signals
    <2>. QED
        BY <2>1, <2>2
<1>5. CASE \/ UploaderStarts \/ TakePathEos \/ UploadFails
           \/ IsSrcCompleted("uploader", "saver", "end")
    <2>1. PICK where \in {"start", "pop", "end"} : Goto("uploader", where)
        BY <1>5 DEF UploaderStarts, TakePathEos, UploadFails, IsSrcCompleted
    <2>2. where \in Places \ {"idle", "over"}
        BY DEF Places
    <2>3. /\ Alive /\ pc["uploader"] \notin {"idle", "over"} /\ run' = run
          /\ UNCHANGED <<options, errors, is_completed_>> /\ status' = status
        BY <1>5 DEF UploaderStarts, TakePathEos, UploadFails, IsSrcCompleted, PopPath, At, signals
    <2>4. Moves("uploader", where)
        BY <2>1, <2>2, <2>3, GoesOn
    <2>. QED
        BY <2>2, <2>4
<1>. QED
    BY <1>1, <1>2, <1>3, <1>4, <1>5 DEF Uploader

LEMMA UploaderData ==
    ASSUME TypeOK, Uploader PROVE ChannelsOK' /\ DataOK' /\ UNCHANGED saver
<1>. ChannelsOK /\ DataOK
    BY TypeParts
<1>0. UNCHANGED <<images, source, saver>>
    BY DEF Uploader, Fails, UploaderStarts, TakePathEos, Upload, UploadFails, TryPopTimesOut,
           IsSrcCompleted, End
<1>1. CASE UNCHANGED <<paths, gcs>>
    BY <1>0, <1>1 DEF ChannelsOK, DataOK, source, saver, gcs
<1>2. CASE PopPath
    <2>1. /\ Head(paths) \in Nat \cup {EmptyPath}
          /\ paths' \in Seq(Nat \cup {EmptyPath}) /\ Len(paths') <= working_buffer_size
        BY <1>2, TailOf, OptionsAssumption DEF PopPath, ChannelsOK
    <2>2. UNCHANGED gcs \/ Upload
        BY <1>2 DEF Uploader, Fails, UploaderStarts, TakePathEos, UploadFails, TryPopTimesOut,
                    IsSrcCompleted, End
    <2>3. disk' \subseteq Nat /\ uploaded' \subseteq Nat
        BY <2>1, <2>2 DEF Upload, DataOK, gcs
    <2>. QED
        BY <1>0, <2>1, <2>3 DEF ChannelsOK, DataOK, source, saver
<1>. QED
    BY <1>1, <1>2 DEF Uploader, Fails, UploaderStarts, TakePathEos, Upload, UploadFails,
       TryPopTimesOut, IsSrcCompleted, End

-----------------------------------------------------------------------------
(* Run.                                                                     *)

LEMMA WorkType ==
    ASSUME TypeOK, NEW w \in Workers, NEW at,
           NEW next \in {"work_saver", "work_source", "join_source"}, Work(w, at, next)
    PROVE  TypeOK'
<1>. RunOK /\ ThreadsOK /\ ChannelsOK /\ DataOK
    BY TypeParts
<1>1. pc' \in [Workers -> Places] /\ pc'[w] = "start" /\ \A v \in Workers : v # w => pc'[v] = pc[v]
    BY GotoType DEF Work, ThreadsOK, Places
<1>2. /\ is_completed_' \in [Workers -> BOOLEAN] /\ is_completed_'[w] = FALSE
      /\ \A v \in Workers : v # w => is_completed_'[v] = is_completed_[v]
    BY DEF Work, ThreadsOK
<1>3. ThreadsOK'
    BY <1>1, <1>2 DEF Work, ThreadsOK
<1>4. RunOK' /\ ChannelsOK' /\ DataOK'
    BY DEF Work, RunOK, ChannelsOK, DataOK, source, saver, gcs
<1>. QED
    BY <1>3, <1>4, NextTypeParts

LEMMA RunType ==
    ASSUME TypeOK, Run \/ Deadlines \/ (\E w \in Workers : DetachedStep(w)) PROVE TypeOK'
<1>. RunOK /\ ThreadsOK /\ ChannelsOK /\ DataOK
    BY TypeParts
<1>1. CASE \/ Work("uploader", "work_uploader", "work_saver")
           \/ Work("saver", "work_saver", "work_source")
           \/ Work("source", "work_source", "join_source")
    BY <1>1, WorkType DEF Workers
<1>2. CASE \/ Join("source", "join_source", "join_saver")
           \/ Join("saver", "join_saver", "join_uploader")
           \/ Join("uploader", "join_uploader", "return")
    <2>1. RunOK'
        BY <1>2 DEF Join, RunOK
    <2>2. ThreadsOK' /\ ChannelsOK' /\ DataOK'
        BY <1>2 DEF Join, ThreadsOK, ChannelsOK, DataOK, source, saver, gcs, signals
    <2>. QED
        BY <2>1, <2>2, NextTypeParts
<1>3. CASE Deadlines \/ \E w \in Workers : DetachedStep(w)
    <2>1. RunOK'
        BY <1>3 DEF Deadlines, JoinTimesOut, DetachedStep, RunOK
    <2>2. ThreadsOK' /\ ChannelsOK' /\ DataOK'
        BY <1>3 DEF Deadlines, JoinTimesOut, DetachedStep, ThreadsOK, ChannelsOK, DataOK, source,
                    saver, gcs, signals
    <2>. QED
        BY <2>1, <2>2, NextTypeParts
<1>. QED
    BY <1>1, <1>2, <1>3 DEF Run

LEMMA NextType == TypeOK /\ [Next]_vars => TypeOK'
<1> SUFFICES ASSUME TypeOK, [Next]_vars PROVE TypeOK'
    OBVIOUS
<1>1. CASE SourceStep
    BY <1>1, SourceMoves, SourceData, MovesType, NextTypeParts DEF Workers
<1>2. CASE Saver
    BY <1>2, SaverMoves, SaverData, MovesType, NextTypeParts DEF Workers
<1>3. CASE Uploader
    BY <1>3, UploaderMoves, UploaderData, MovesType, NextTypeParts DEF Workers
<1>4. CASE Run \/ Deadlines \/ \E w \in Workers : DetachedStep(w)
    BY <1>4, RunType
<1>5. CASE UNCHANGED vars
    BY <1>5 DEF vars, signals, source, saver, gcs, TypeOK
<1>. QED
    BY <1>1, <1>2, <1>3, <1>4, <1>5 DEF Next, SourceStep

\* Every variable stays in range, both channels within their size, and a
\* completion signal is down exactly while its thread is at work, for any sizes.
THEOREM TypeCorrect == Spec => []TypeOK
BY InitType, NextType, PTL DEF Spec

-----------------------------------------------------------------------------
(* Files.                                                                   *)

FilesOK == Filling /\ FilesFilled

LEMMA FilesDomain ==
    TypeOK => /\ Len(files) \in Nat /\ DOMAIN files = 1 .. Len(files)
              /\ Len(current) \in Nat /\ (Len(current) = 0 <=> current = <<>>)
BY LenProperties, EmptySeq DEF TypeOK

\* Nothing happens to the files.
LEMMA FilesUntouched ==
    ASSUME TypeOK, FilesOK, UNCHANGED saver, pc'["saver"] = pc["saver"],
           status'["saver"] = status["saver"]
    PROVE  FilesOK'
BY DEF FilesOK, Filling, FilesFilled, saver

\* The saver moves on with its files as they are.
LEMMA SaverMovesOn ==
    ASSUME TypeOK, FilesOK, UNCHANGED saver,
           status'["saver"] = status["saver"] \/ status'["saver"] = "error",
           \/ pc["saver"] = "idle" /\ pc'["saver"] = "start"
           \/ pc["saver"] = "start" /\ pc'["saver"] \in {"pop", "end"}
           \/ /\ pc["saver"] \in {"pop", "timeout"}
              /\ pc'["saver"] \in {"pop", "timeout", "finish_last"}
           \/ pc["saver"] = "eos" /\ pc'["saver"] = "end"
           \/ pc["saver"] = "end" /\ pc'["saver"] = "over"
    PROVE  FilesOK'
<1>1. FilesFilled'
    BY DEF FilesOK, FilesFilled, saver
<1>2. Filling'
    BY DEF FilesOK, Filling, saver
<1>. QED
    BY <1>1, <1>2 DEF FilesOK

LEMMA SaverPlaces ==
    ASSUME TypeOK
    PROVE  \A where : Goto("saver", where) => pc'["saver"] = where
BY TypeParts DEF Goto, ThreadsOK, Workers

\* An image that is written fills the open file up to its limit, and no further.
LEMMA WriteFiles == ASSUME TypeOK, FilesOK, WriteImage \/ WriteImageFails PROVE FilesOK'
<1>0. pc["saver"] = "pop" /\ UNCHANGED files
    BY DEF WriteImage, WriteImageFails, PopImage, At
<1>1. FilesFilled'
    BY <1>0 DEF FilesOK, FilesFilled
<1>2. CASE WriteImage
    <2>1. PICK n \in Frames :
            /\ current' = Append(current, n)
            /\ Goto("saver", IF Len(current') < max_frames_per_file THEN "pop" ELSE "finish")
        BY <1>2 DEF WriteImage
    <2>2. Len(current') = Len(current) + 1 /\ Len(current) \in Nat
        BY <2>1, AppendOf DEF TypeOK
    <2>3. pc'["saver"] = IF Len(current') < max_frames_per_file THEN "pop" ELSE "finish"
        BY <2>1, SaverPlaces
    <2>4. Len(current) < max_frames_per_file
        BY <1>0 DEF FilesOK, Filling
    <2>. QED
        BY <1>0, <1>1, <1>2, <2>2, <2>3, <2>4, OptionsAssumption
        DEF FilesOK, Filling, WriteImage, signals
<1>3. CASE WriteImageFails
    <2>1. /\ current' = <<>> /\ Len(current') = 0 /\ Goto("saver", "eos")
          /\ status' = [status EXCEPT !["saver"] = "error"]
        BY <1>3, EmptySeq DEF WriteImageFails
    <2>2. pc'["saver"] = "eos" /\ status'["saver"] = "error"
        BY <2>1, SaverPlaces DEF TypeOK, Workers
    <2>. QED
        BY <1>1, <2>1, <2>2, OptionsAssumption DEF FilesOK, Filling
<1>. QED
    BY <1>2, <1>3

\* A file that is finished is full, or the last.
LEMMA FinishFiles == ASSUME TypeOK, FilesOK, FinishFile PROVE FilesOK'
<1>1. /\ pc["saver"] \in {"finish", "finish_last"}
      /\ files' = IF current = <<>> THEN files ELSE Append(files, current)
      /\ current' = <<>> /\ Len(current') = 0 /\ UNCHANGED <<signals, removed>>
    BY EmptySeq DEF FinishFile, At
<1>2. pc'["saver"] = "eos" \/ (pc'["saver"] = "pop" /\ pc["saver"] = "finish")
    <2>1. Goto("saver", "eos") \/ (Goto("saver", "pop") /\ pc["saver"] = "finish")
        BY DEF FinishFile, At
    <2>. QED
        BY <2>1, SaverPlaces
<1>3. Len(current) <= max_frames_per_file /\ Len(current) \in Nat
    BY <1>1, FilesDomain, OptionsAssumption DEF FilesOK, Filling
<1>4. \A f \in 1 .. Len(files) : Len(files[f]) = max_frames_per_file
    BY <1>1 DEF FilesOK, Filling
<1>5. CASE current = <<>>
    <2>1. files' = files /\ pc["saver"] = "finish_last"
        BY <1>1, <1>5, OptionsAssumption, EmptySeq DEF FilesOK, Filling
    <2>. QED
        BY <1>1, <1>2, <1>4, <2>1, OptionsAssumption DEF FilesOK, Filling, FilesFilled, signals
<1>6. CASE current # <<>>
    <2>1. files' = Append(files, current) /\ files \in Seq(Seq(Frames)) /\ current \in Seq(Frames)
        BY <1>1, <1>6 DEF TypeOK
    <2>2. /\ Len(files) \in Nat /\ Len(files') = Len(files) + 1 /\ DOMAIN files' = 1 .. Len(files')
          /\ \A f \in 1 .. Len(files) : files'[f] = files[f]
          /\ files'[Len(files) + 1] = current
          /\ \A f \in 1 .. Len(files) + 1 : f \in 1 .. Len(files) \/ f = Len(files) + 1
        <3>1. files' \in Seq(Seq(Frames))
            BY <2>1, AppendProperties
        <3>. QED
            BY <2>1, <3>1, AppendProperties, LenProperties
    <2>3. Len(current) \in 1 .. max_frames_per_file
        BY <1>3, <1>6, FilesDomain, OptionsAssumption
    <2>4. max_frames_per_file \in 1 .. max_frames_per_file
        BY OptionsAssumption
    <2>5. FilesFilled'
        BY <1>4, <2>2, <2>3, <2>4 DEF FilesFilled
    <2>6. pc'["saver"] = "pop" => \A f \in 1 .. Len(files') : Len(files'[f]) = max_frames_per_file
        BY <1>2, <1>4, <2>2 DEF FilesOK, Filling
    <2>. QED
        BY <1>1, <1>2, <2>5, <2>6, OptionsAssumption DEF FilesOK, Filling, signals
<1>. QED
    BY <1>5, <1>6

LEMMA SaverFiles == ASSUME TypeOK, FilesOK, Saver PROVE FilesOK'
<1>1. CASE WriteImage \/ WriteImageFails
    BY <1>1, WriteFiles
<1>2. CASE FinishFile
    BY <1>2, FinishFiles
<1>3. CASE TakeBadImage
    BY <1>3, FilesUntouched DEF TakeBadImage, signals
<1>4. CASE Fails("saver")
    <2>1. /\ pc["saver"] = "start" /\ pc'["saver"] = "end"
          /\ status'["saver"] = "error" /\ UNCHANGED saver
        BY <1>4, SaverPlaces DEF Fails, At, TypeOK, Workers
    <2>. QED
        BY <2>1, SaverMovesOn
<1>5. CASE End("saver")
    <2>1. pc["saver"] = "end" /\ pc'["saver"] = "over" /\ UNCHANGED <<saver, status>>
        BY <1>5, SaverPlaces DEF End, At
    <2>. QED
        BY <2>1, SaverMovesOn
<1>6. CASE \/ SaverStarts \/ TakeEos \/ TryPopTimesOut("saver", images)
           \/ IsSrcCompleted("saver", "source", "finish_last")
    <2>1. /\ UNCHANGED <<saver, status>>
          /\ \/ pc["saver"] = "start" /\ pc'["saver"] = "pop"
             \/ /\ pc["saver"] \in {"pop", "timeout"}
                /\ pc'["saver"] \in {"pop", "timeout", "finish_last"}
        BY <1>6, SaverPlaces DEF SaverStarts, TakeEos, PopImage, TryPopTimesOut, IsSrcCompleted, At,
                                 signals
    <2>. QED
        BY <2>1, SaverMovesOn
<1>7. CASE ForwardEos
    <2>1. pc["saver"] = "eos" /\ pc'["saver"] = "end" /\ UNCHANGED <<saver, status>>
        BY <1>7, SaverPlaces DEF ForwardEos, At, signals
    <2>. QED
        BY <2>1, SaverMovesOn
<1>. QED
    BY <1>1, <1>2, <1>3, <1>4, <1>5, <1>6, <1>7 DEF Saver

\* Run starts the saver when nothing has been written.
LEMMA RunFiles ==
    ASSUME TypeOK, Stages, FilesOK, Run \/ Deadlines \/ (\E w \in Workers : DetachedStep(w))
    PROVE  FilesOK'
<1>1. CASE Work("saver", "work_saver", "work_source")
    <2>1. pc["saver"] = "idle" /\ pc'["saver"] = "start" /\ UNCHANGED <<saver, status>>
        BY <1>1, SaverPlaces DEF Work, Stages
    <2>. QED
        BY <2>1, SaverMovesOn
<1>2. CASE ~Work("saver", "work_saver", "work_source")
    <2>1. UNCHANGED <<saver, status>> /\ pc'["saver"] = pc["saver"]
        <3>1. CASE \/ Work("uploader", "work_uploader", "work_saver")
                   \/ Work("source", "work_source", "join_source")
            BY <3>1 DEF Work, Goto, TypeOK, Workers
        <3>2. CASE ~(\/ Work("uploader", "work_uploader", "work_saver")
                     \/ Work("source", "work_source", "join_source"))
            BY <1>2, <3>2 DEF Run, Deadlines, Join, JoinTimesOut, DetachedStep, signals
        <3>. QED
            BY <3>1, <3>2
    <2>. QED
        BY <2>1, FilesUntouched
<1>. QED
    BY <1>1, <1>2

-----------------------------------------------------------------------------
(* Finished videos.                                                         *)

\* A file leaves the disk only for the bucket.
LEMMA SafeKept ==
    ASSUME TypeOK, VideoSafe, UNCHANGED files, disk \cup uploaded \subseteq disk' \cup uploaded'
    PROVE  VideoSafe'
BY DEF VideoSafe

LEMMA NextSafe == TypeOK /\ VideoSafe /\ [Next]_vars => VideoSafe'
<1> SUFFICES ASSUME TypeOK, VideoSafe, [Next]_vars PROVE VideoSafe'
    OBVIOUS
<1>1. CASE FinishFile
    <2>1. CASE current = <<>>
        <3>1. UNCHANGED <<files, uploaded>> /\ disk \subseteq disk'
            BY <1>1, <2>1 DEF FinishFile
        <3>. QED
            BY <3>1, SafeKept
    <2>2. CASE current # <<>>
        <3>1. /\ files' = Append(files, current) /\ uploaded' = uploaded
              /\ disk' = disk \cup ({Len(files) + 1} \ {EmptyPath})
            BY <1>1, <2>2 DEF FinishFile
        <3>2. /\ Len(files) \in Nat /\ DOMAIN files = 1 .. Len(files)
              /\ DOMAIN files' = 1 .. Len(files) + 1
            BY <3>1, LenProperties, AppendProperties DEF TypeOK
        <3>3. Len(files) + 1 \in disk'
            BY <3>1, <3>2 DEF EmptyPath
        <3>4. \A f \in 1 .. Len(files) + 1 : f \in 1 .. Len(files) \/ f = Len(files) + 1
            BY <3>2
        <3>. QED
            BY <3>1, <3>2, <3>3, <3>4 DEF VideoSafe
    <2>. QED
        BY <2>1, <2>2
<1>2. CASE Upload
    BY <1>2, SafeKept DEF Upload, saver
<1>3. CASE UNCHANGED <<files, gcs>>
    BY <1>3, SafeKept DEF gcs
<1>4. CASE SourceStep
    BY <1>4, <1>3, SourceData DEF saver
<1>5. CASE Saver /\ ~FinishFile
    BY <1>5, <1>3 DEF Saver, Fails, SaverStarts, TakeEos, TakeBadImage, WriteImage, WriteImageFails,
       TryPopTimesOut, IsSrcCompleted, ForwardEos, End, saver
<1>6. CASE Uploader /\ ~Upload
    BY <1>6, <1>3 DEF Uploader, Fails, UploaderStarts, TakePathEos, UploadFails, TryPopTimesOut,
       IsSrcCompleted, End, saver
<1>7. CASE Run \/ Deadlines \/ (\E w \in Workers : DetachedStep(w)) \/ UNCHANGED vars
    BY <1>7, <1>3 DEF Run, Deadlines, Work, Join, JoinTimesOut, DetachedStep, saver, vars
<1>. QED
    BY <1>1, <1>2, <1>4, <1>5, <1>6, <1>7 DEF Next, SourceStep

-----------------------------------------------------------------------------
(* What an OK of Run means.                                                 *)

LEMMA RunKeeps ==
    ASSUME TypeOK, Stages, Joined, Run \/ Deadlines \/ (\E w \in Workers : DetachedStep(w))
    PROVE  Stages' /\ Joined'
<1>. /\ pc \in [Workers -> Places]
     /\ \A w \in Workers : is_completed_[w] <=> pc[w] \in {"idle", "over"}
    BY TypeParts DEF ThreadsOK
<1>. status \in [Workers -> {"ok", "error"}] /\ errors \in BOOLEAN
    BY DEF TypeOK
<1>1. CASE \/ Work("uploader", "work_uploader", "work_saver")
           \/ Work("saver", "work_saver", "work_source")
           \/ Work("source", "work_source", "join_source")
    BY <1>1 DEF Work, Goto, Stages, Joined, Workers
<1>2. CASE \/ Join("source", "join_source", "join_saver")
           \/ Join("saver", "join_saver", "join_uploader")
           \/ Join("uploader", "join_uploader", "return")
    <2>1. UNCHANGED <<pc, status>>
        BY <1>2 DEF Join, signals
    <2>2. Stages'
        BY <1>2, <2>1 DEF Join, Stages, Workers
    <2>3. CASE Join("source", "join_source", "join_saver")
        BY <2>1, <2>3 DEF Join, Stages, Joined, EndedWell, Workers
    <2>4. CASE Join("saver", "join_saver", "join_uploader")
        BY <2>1, <2>4 DEF Join, Stages, Joined, EndedWell, Workers
    <2>5. CASE Join("uploader", "join_uploader", "return")
        BY <2>1, <2>5 DEF Join, Stages, Joined, EndedWell, Workers
    <2>. QED
        BY <1>2, <2>2, <2>3, <2>4, <2>5
<1>3. CASE Deadlines \/ \E w \in Workers : DetachedStep(w)
    BY <1>3 DEF Deadlines, JoinTimesOut, DetachedStep, signals, Stages, Joined, EndedWell, Workers
<1>. QED
    BY <1>1, <1>2, <1>3 DEF Run

LEMMA InitInv == Init => Inv
<1> SUFFICES ASSUME Init PROVE Inv
    OBVIOUS
<1>1. /\ current = <<>> /\ files = <<>> /\ Len(current) = 0 /\ Len(files) = 0
      /\ DOMAIN files = 1 .. 0
    BY EmptySeq, FilesDomain, InitType DEF Init
<1>2. Filling /\ FilesFilled /\ VideoSafe
    BY <1>1, OptionsAssumption DEF Init, Filling, FilesFilled, VideoSafe, Workers
<1>3. Stages /\ Joined
    BY DEF Init, Stages, Joined, Workers
<1>. QED
    BY <1>2, <1>3 DEF Inv

LEMMA NextInv == TypeOK /\ Inv /\ [Next]_vars => Inv'
<1> SUFFICES ASSUME TypeOK, Inv, [Next]_vars PROVE Inv'
    OBVIOUS
<1>. Stages /\ Joined /\ FilesOK /\ VideoSafe
    BY DEF Inv, FilesOK
<1>1. VideoSafe'
    BY NextSafe
<1>2. Stages' /\ Joined' /\ FilesOK'
    <2>1. CASE SourceStep
        <3>1. PICK place \in Places \ {"idle"} : Moves("source", place)
            BY <2>1, SourceMoves
        <3>2. pc'["saver"] = pc["saver"] /\ status'["saver"] = status["saver"]
            BY <3>1 DEF Moves, Workers
        <3>. QED
            BY <2>1, <3>1, <3>2, MovesKeeps, FilesUntouched, SourceData DEF Workers
    <2>2. CASE Saver
        BY <2>2, SaverMoves, MovesKeeps, SaverFiles DEF Workers
    <2>3. CASE Uploader
        <3>1. PICK place \in Places \ {"idle"} : Moves("uploader", place)
            BY <2>3, UploaderMoves
        <3>2. pc'["saver"] = pc["saver"] /\ status'["saver"] = status["saver"]
            BY <3>1 DEF Moves, Workers
        <3>. QED
            BY <2>3, <3>1, <3>2, MovesKeeps, FilesUntouched, UploaderData DEF Workers
    <2>4. CASE Run \/ Deadlines \/ \E w \in Workers : DetachedStep(w)
        BY <2>4, RunKeeps, RunFiles
    <2>5. CASE UNCHANGED vars
        <3>1. FilesOK'
            BY <2>5, FilesUntouched DEF vars, signals
        <3>2. Stages' /\ Joined'
            BY <2>5 DEF vars, signals, Stages, Joined, EndedWell
        <3>. QED
            BY <3>1, <3>2
    <2>. QED
        BY <2>1, <2>2, <2>3, <2>4, <2>5 DEF Next, SourceStep
<1>. QED
    BY <1>1, <1>2 DEF Inv, FilesOK

LEMMA InvAlways == Spec => [](TypeOK /\ Inv)
<1>1. Init => TypeOK /\ Inv
    BY InitType, InitInv
<1>2. TypeOK /\ Inv /\ [Next]_vars => TypeOK' /\ Inv'
    BY NextType, NextInv
<1>. QED
    BY <1>1, <1>2, PTL DEF Spec

\* No file has more than max_frames_per_file frames, and none but the last fewer,
\* wherever the saver fails, times out or finds an EOS.
THEOREM FilesFilledCorrect == Spec => []FilesFilled
<1>1. TypeOK /\ Inv => FilesFilled
    BY DEF Inv
<1>. QED
    BY <1>1, InvAlways, PTL

\* No finished video is lost, whatever fails or is dropped.
THEOREM VideoSafeCorrect == Spec => []VideoSafe
<1>1. TypeOK /\ Inv => VideoSafe
    BY DEF Inv
<1>. QED
    BY <1>1, InvAlways, PTL

\* An OK of Run means that every worker is over and went well, and that no file
\* is open or given up.
THEOREM OkMeansDoneCorrect == Spec => []OkMeansDone
<1>1. TypeOK /\ Inv => OkMeansDone
    BY DEF Inv, Joined, EndedWell, Filling, OkMeansDone, Workers
<1>. QED
    BY <1>1, InvAlways, PTL

-----------------------------------------------------------------------------
(* Frames.                                                                  *)

\* Frame n is the k-th of file f, of the open file, or in the channel.
InFile(f, k, n) == f \in 1 .. Len(files) /\ k \in 1 .. Len(files[f]) /\ n = files[f][k]
IsOpen(k, n)    == k \in 1 .. Len(current) /\ n = current[k]
IsWaiting(k, n) == k \in 1 .. Len(images) /\ n = images[k]

Filed   == {n \in Frames : \E f, k : InFile(f, k, n)}
Open    == {n \in Frames : \E k : IsOpen(k, n)}
Waiting == {n \in Frames : \E k : IsWaiting(k, n)}

Ordered ==
    /\ \A f, k, m, g, l, n : InFile(f, k, m) /\ InFile(g, l, n) /\ (f < g \/ (f = g /\ k < l))
                                 => m < n
    /\ \A k, m, l, n : IsOpen(k, m) /\ IsOpen(l, n) /\ k < l => m < n
    /\ \A k, l : \A m, n \in Frames : IsWaiting(k, m) /\ IsWaiting(l, n) /\ k < l => m < n
    /\ \A m \in Filed, n \in Open \cup Waiting : m < n
    /\ \A m \in Open, n \in Waiting : m < n

Accounted ==
    /\ Filed \cup Open \cup Waiting = (1 .. decoded) \ (dropped \cup removed)
    /\ dropped \cup removed \subseteq 1 .. decoded

FramesInv == Ordered /\ Accounted

LEMMA FilesTyped ==
    ASSUME TypeOK
    PROVE  /\ Len(files) \in Nat /\ DOMAIN files = 1 .. Len(files)
           /\ \A f \in 1 .. Len(files) :
                  /\ files[f] \in Seq(Frames) /\ Len(files[f]) \in Nat
                  /\ DOMAIN files[f] = 1 .. Len(files[f])
                  /\ \A k \in 1 .. Len(files[f]) : files[f][k] \in Frames
           /\ current \in Seq(Frames) /\ Len(current) \in Nat /\ DOMAIN current = 1 .. Len(current)
           /\ \A k \in 1 .. Len(current) : current[k] \in Frames
           /\ images \in Seq(Frames \cup {Eos, BadImage})
           /\ Len(images) \in Nat /\ DOMAIN images = 1 .. Len(images)
           /\ decoded \in 0 .. LastFrame /\ Frames \subseteq Nat
<1>1. /\ files \in Seq(Seq(Frames)) /\ current \in Seq(Frames)
      /\ images \in Seq(Frames \cup {Eos, BadImage}) /\ decoded \in 0 .. LastFrame
    BY DEF TypeOK
<1>2. Len(files) \in Nat /\ DOMAIN files = 1 .. Len(files)
      /\ \A f \in 1 .. Len(files) : files[f] \in Seq(Frames)
    BY <1>1, LenProperties, ElementOfSeq
<1>3. Frames \subseteq Nat
    BY BoundAssumption DEF Frames
<1>4. \A s \in Seq(Frames) :
          Len(s) \in Nat /\ DOMAIN s = 1 .. Len(s) /\ \A k \in 1 .. Len(s) : s[k] \in Frames
    BY LenProperties, ElementOfSeq
<1>5. Len(images) \in Nat /\ DOMAIN images = 1 .. Len(images)
    BY <1>1, LenProperties
<1>. QED
    BY <1>1, <1>2, <1>3, <1>4, <1>5

LEMMA FramesSay == TypeOK /\ FramesInv => FramesAccounted
<1> SUFFICES ASSUME TypeOK, FramesInv PROVE FramesAccounted
    OBVIOUS
<1> DEFINE S == Seq(Frames \cup {Eos, BadImage})
           n == Len(files)
<1>0. n \in Nat
    BY FilesTyped
<1>1. /\ DOMAIN Held = 1 .. n + 2
      /\ \A f \in 1 .. n : Held[f] = files[f]
      /\ Held[n + 1] = current /\ Held[n + 2] = images
    <2>1. \A s \in Seq(Frames) : s \in S
        OBVIOUS
    <2>2. files \in Seq(Seq(Frames)) /\ current \in Seq(Frames) /\ images \in S
        BY DEF TypeOK
    <2>3. files \in Seq(S) /\ current \in S
        BY <2>1, <2>2, FilesTyped, IsASeq
    <2> DEFINE t == Append(files, current)
    <2>4. /\ t \in Seq(S) /\ Len(t) = n + 1 /\ \A f \in 1 .. n : t[f] = files[f]
          /\ t[n + 1] = current
        BY <2>3, AppendProperties
    <2>5. Held = Append(t, images)
        BY DEF Held
    <2> HIDE DEF t, S
    <2>6. /\ Held \in Seq(S) /\ Len(Held) = n + 2 /\ \A f \in 1 .. n + 1 : Held[f] = t[f]
          /\ Held[n + 2] = images
        BY <1>0, <2>2, <2>4, <2>5, AppendProperties
    <2>7. DOMAIN Held = 1 .. Len(Held)
        BY <2>6, LenProperties
    <2>. QED
        BY <1>0, <2>4, <2>6, <2>7
<1>2. \A i \in DOMAIN Held : i \in 1 .. n \/ i = n + 1 \/ i = n + 2
    BY <1>0, <1>1
<1>3. {m \in Frames : \E i \in DOMAIN Held : m \in Range(Held[i])} = Filed \cup Open \cup Waiting
    <2>1. \A m \in Filed : \E i \in DOMAIN Held : m \in Range(Held[i])
        BY <1>0, <1>1, FilesTyped DEF Filed, InFile, Range
    <2>2. \A m \in Open : \E i \in DOMAIN Held : m \in Range(Held[i])
        <3>1. \A m \in Open : m \in Range(Held[n + 1])
            BY <1>1, FilesTyped DEF Open, IsOpen, Range
        <3>. QED
            BY <1>0, <1>1, <3>1
    <2>3. \A m \in Waiting : \E i \in DOMAIN Held : m \in Range(Held[i])
        <3>1. \A m \in Waiting : m \in Range(Held[n + 2])
            BY <1>1, FilesTyped DEF Waiting, IsWaiting, Range
        <3>. QED
            BY <1>0, <1>1, <3>1
    <2>4. ASSUME NEW m \in Frames, NEW i \in DOMAIN Held, m \in Range(Held[i])
          PROVE  m \in Filed \cup Open \cup Waiting
        <3>1. CASE i \in 1 .. n
            BY <1>1, <2>4, <3>1, FilesTyped DEF Filed, InFile, Range
        <3>2. CASE i = n + 1
            BY <1>1, <2>4, <3>2, FilesTyped DEF Open, IsOpen, Range
        <3>3. CASE i = n + 2
            BY <1>1, <2>4, <3>3, FilesTyped DEF Waiting, IsWaiting, Range
        <3>. QED
            BY <1>2, <3>1, <3>2, <3>3
    <2>5. Filed \cup Open \cup Waiting \subseteq Frames
        BY DEF Filed, Open, Waiting
    <2>. QED
        BY <2>1, <2>2, <2>3, <2>4, <2>5
<1>4. ASSUME NEW i \in DOMAIN Held, NEW j \in DOMAIN Held,
             NEW k \in DOMAIN Held[i], NEW l \in DOMAIN Held[j],
             i < j \/ (i = j /\ k < l), Held[i][k] \in Frames, Held[j][l] \in Frames
      PROVE  Held[i][k] < Held[j][l]
    <2>1. i \in 1 .. n => InFile(i, k, Held[i][k]) /\ Held[i][k] \in Filed
        BY <1>1, <1>4, FilesTyped DEF Filed, InFile
    <2>2. i = n + 1 => IsOpen(k, Held[i][k]) /\ Held[i][k] \in Open
        BY <1>1, <1>4, FilesTyped DEF Open, IsOpen
    <2>3. i = n + 2 => IsWaiting(k, Held[i][k]) /\ Held[i][k] \in Waiting
        BY <1>1, <1>4, FilesTyped DEF Waiting, IsWaiting
    <2>4. j \in 1 .. n => InFile(j, l, Held[j][l]) /\ Held[j][l] \in Filed
        BY <1>1, <1>4, FilesTyped DEF Filed, InFile
    <2>5. j = n + 1 => IsOpen(l, Held[j][l]) /\ Held[j][l] \in Open
        BY <1>1, <1>4, FilesTyped DEF Open, IsOpen
    <2>6. j = n + 2 => IsWaiting(l, Held[j][l]) /\ Held[j][l] \in Waiting
        BY <1>1, <1>4, FilesTyped DEF Waiting, IsWaiting
    <2>7. Ordered
        BY DEF FramesInv
    <2>8. CASE i \in 1 .. n /\ j \in 1 .. n
        BY <1>4, <2>1, <2>4, <2>7, <2>8 DEF Ordered
    <2>9. CASE i \in 1 .. n /\ j \notin 1 .. n
        BY <1>2, <2>1, <2>5, <2>6, <2>7, <2>9 DEF Ordered
    <2>10. CASE i = n + 1 /\ j = n + 1
        BY <1>0, <1>4, <2>2, <2>5, <2>7, <2>10 DEF Ordered
    <2>11. CASE i = n + 1 /\ j = n + 2
        BY <2>2, <2>6, <2>7, <2>11 DEF Ordered
    <2>12. CASE i = n + 2 /\ j = n + 2
        BY <1>0, <1>4, <2>3, <2>6, <2>7, <2>12 DEF Ordered
    <2>13. i \in Nat /\ j \in Nat /\ i <= j
        BY <1>0, <1>1, <1>4
    <2>. QED
        BY <1>0, <1>2, <2>8, <2>9, <2>10, <2>11, <2>12, <2>13
<1>. QED
    BY <1>3, <1>4 DEF FramesAccounted, FramesInv, Accounted

\* What is put into the image channel waits behind all that waits there.
LEMMA Emplaced ==
    ASSUME TypeOK, NEW x \in Frames \cup {Eos, BadImage}, images' = Append(images, x)
    PROVE  \A k : \A n \in Frames :
               IsWaiting(k, n)' <=> IsWaiting(k, n) \/ (k = Len(images) + 1 /\ n = x)
<1>1. images \in Seq(Frames \cup {Eos, BadImage})
    BY DEF TypeOK
<1>2. /\ Len(images) \in Nat /\ Len(images') = Len(images) + 1
      /\ \A k \in 1 .. Len(images) : images'[k] = images[k]
      /\ images'[Len(images) + 1] = x
    BY <1>1, AppendOf
<1>. QED
    BY <1>2 DEF IsWaiting

\* What is taken from it has waited longest.
LEMMA Popped ==
    ASSUME TypeOK, images # <<>>, images' = Tail(images)
    PROVE  /\ \A k : \A n \in Frames : IsWaiting(k, n)' <=> k \in Nat \ {0} /\ IsWaiting(k + 1, n)
           /\ \A n \in Frames : IsWaiting(1, n) <=> n = Head(images)
<1>1. images \in Seq(Frames \cup {Eos, BadImage})
    BY DEF TypeOK
<1>2. /\ Len(images) \in Nat /\ Len(images') = Len(images) - 1 /\ Len(images) >= 1
      /\ Head(images) = images[1]
      /\ \A k \in 1 .. Len(images) - 1 : images'[k] = images[k + 1]
    BY <1>1, HeadTailProperties, LenProperties, EmptySeq
<1>3. \A k : \A n \in Frames : IsWaiting(k, n)' <=> k \in Nat \ {0} /\ IsWaiting(k + 1, n)
    BY <1>2 DEF IsWaiting
<1>4. \A n \in Frames : IsWaiting(1, n) <=> n = Head(images)
    BY <1>2 DEF IsWaiting
<1>. QED
    BY <1>3, <1>4

\* The channel apart, nothing that holds frames has changed.
FilesKept == UNCHANGED <<files, current, decoded, dropped, removed>>

LEMMA NonFrames == Eos \notin Frames /\ BadImage \notin Frames
BY BoundAssumption DEF Eos, BadImage, Frames

LEMMA FilesStand ==
    ASSUME UNCHANGED <<files, current>>
    PROVE  /\ \A f, k, n : InFile(f, k, n)' <=> InFile(f, k, n)
           /\ \A k, n : IsOpen(k, n)' <=> IsOpen(k, n)
           /\ Filed' = Filed /\ Open' = Open
BY DEF InFile, IsOpen, Filed, Open

LEMMA FramesInitial == Init => FramesInv
<1> SUFFICES ASSUME Init PROVE FramesInv
    OBVIOUS
<1>1. /\ \A f, k, n : ~InFile(f, k, n)
      /\ \A k, n : ~IsOpen(k, n) /\ ~IsWaiting(k, n)
    BY DEF Init, InFile, IsOpen, IsWaiting
<1>2. Filed = {} /\ Open = {} /\ Waiting = {}
    BY <1>1 DEF Filed, Open, Waiting
<1>3. Ordered
    BY <1>1, <1>2 DEF Ordered
<1>4. Accounted
    BY <1>2 DEF Init, Accounted
<1>. QED
    BY <1>3, <1>4 DEF FramesInv

\* A mark that is no frame comes and goes.
LEMMA MarkComes ==
    ASSUME TypeOK, FramesInv, NEW x \in {Eos, BadImage}, images' = TryEmplace(images, x),
           UNCHANGED <<files, current, removed>>
    PROVE  Ordered' /\ Waiting' = Waiting /\ Filed' = Filed /\ Open' = Open
<1>1. \A k : \A n \in Frames : IsWaiting(k, n)' <=> IsWaiting(k, n)
    <2>1. CASE images' = images
        BY <2>1 DEF IsWaiting
    <2>2. CASE images' = Append(images, x)
        BY <2>2, Emplaced, NonFrames
    <2>. QED
        BY <2>1, <2>2 DEF TryEmplace
<1>2. Waiting' = Waiting
    BY <1>1 DEF Waiting
<1>. QED
    BY <1>1, <1>2, FilesStand DEF FramesInv, Ordered

LEMMA MarkGoes ==
    ASSUME TypeOK, FramesInv, images # <<>>, images' = Tail(images),
           Head(images) \in {Eos, BadImage}, FilesKept
    PROVE  FramesInv'
<1>1. \A k : \A n \in Frames : IsWaiting(k, n)' <=> k \in Nat \ {0} /\ IsWaiting(k + 1, n)
    BY Popped
<1>2. \A n \in Frames : ~IsWaiting(1, n)
    BY Popped, NonFrames
<1>3. \A k : \A n \in Frames : IsWaiting(k, n) => k \in Nat \ {0, 1} /\ IsWaiting(k - 1, n)'
    <2>1. SUFFICES ASSUME NEW k, NEW n \in Frames, IsWaiting(k, n)
                   PROVE  k \in Nat \ {0, 1} /\ IsWaiting(k - 1, n)'
        OBVIOUS
    <2>2. k \in Nat \ {0, 1}
        BY <1>2, <2>1, FilesTyped DEF IsWaiting
    <2>3. k - 1 \in Nat \ {0} /\ (k - 1) + 1 = k
        BY <2>2
    <2>. QED
        BY <1>1, <2>1, <2>2, <2>3
<1>4. Waiting' = Waiting
    BY <1>1, <1>3 DEF Waiting
<1>5. Ordered'
    <2>1. ASSUME NEW k, NEW l, NEW m \in Frames, NEW n \in Frames,
                 IsWaiting(k, m)', IsWaiting(l, n)', k < l
          PROVE  m < n
        <3>1. k \in Nat /\ l \in Nat /\ IsWaiting(k + 1, m) /\ IsWaiting(l + 1, n)
            BY <1>1, <2>1
        <3>2. k + 1 < l + 1
            BY <2>1, <3>1
        <3>. QED
            BY <3>1, <3>2 DEF FramesInv, Ordered
    <2>. QED
        BY <1>4, <2>1, FilesStand DEF FilesKept, FramesInv, Ordered
<1>. QED
    BY <1>4, <1>5, FilesStand DEF FilesKept, FramesInv, Accounted

LEMMA MarkComesKeeps ==
    ASSUME TypeOK, FramesInv, NEW x \in {Eos, BadImage}, images' = TryEmplace(images, x), FilesKept
    PROVE  FramesInv'
BY MarkComes DEF FilesKept, FramesInv, Accounted

\* A new frame is the last of all, or dropped.
LEMMA PushBadImageKeeps == TypeOK /\ FramesInv /\ PushBadImage => FramesInv'
<1> SUFFICES ASSUME TypeOK, FramesInv, PushBadImage PROVE FramesInv'
    OBVIOUS
<1>1. /\ images' = TryEmplace(images, BadImage) /\ UNCHANGED <<files, current, removed>>
      /\ decoded' = decoded + 1 /\ dropped' = dropped \cup {decoded + 1} /\ decoded \in Nat
    BY FilesTyped, BoundAssumption DEF PushBadImage, saver
<1>2. Ordered' /\ Waiting' = Waiting /\ Filed' = Filed /\ Open' = Open
    BY <1>1, MarkComes
<1>. QED
    BY <1>1, <1>2 DEF FramesInv, Accounted

LEMMA PushImageKeeps == TypeOK /\ FramesInv /\ PushImage => FramesInv'
<1> SUFFICES ASSUME TypeOK, FramesInv, PushImage PROVE FramesInv'
    OBVIOUS
<1> DEFINE x == decoded + 1
<1>1. /\ images' = TryEmplace(images, x) /\ UNCHANGED <<files, current, removed>>
      /\ decoded' = x /\ dropped' = IF images' = images THEN dropped \cup {x} ELSE dropped
      /\ decoded \in Nat
    BY FilesTyped, BoundAssumption DEF PushImage, saver
<1>2. x \in Frames /\ x \in Nat
    BY <1>1, BoundAssumption DEF PushImage, Decoding, Frames, TypeOK
<1>3. CASE images' = images
    <2>1. \A k, n : IsWaiting(k, n)' <=> IsWaiting(k, n)
        BY <1>3 DEF IsWaiting
    <2>2. Waiting' = Waiting
        BY <2>1 DEF Waiting
    <2>3. Ordered'
        BY <1>1, <2>1, <2>2, FilesStand DEF FramesInv, Ordered
    <2>4. dropped' = dropped \cup {x}
        BY <1>1, <1>3
    <2>5. Accounted'
        BY <1>1, <2>2, <2>4, FilesStand DEF FramesInv, Accounted
    <2>. QED
        BY <2>3, <2>5 DEF FramesInv
<1>4. CASE images' # images
    <2>1. images' = Append(images, x) /\ dropped' = dropped
        BY <1>1, <1>4 DEF TryEmplace
    <2>2. \A k : \A n \in Frames :
              IsWaiting(k, n)' <=> IsWaiting(k, n) \/ (k = Len(images) + 1 /\ n = x)
        BY <1>2, <2>1, Emplaced
    <2>3. Waiting' = Waiting \cup {x}
        BY <1>2, <2>2 DEF Waiting
    <2>4. \A n \in Filed \cup Open \cup Waiting : n \in Nat /\ n < x
        BY <1>1 DEF FramesInv, Accounted
    <2>5. \A k : \A n \in Frames :
              IsWaiting(k, n) => n \in Waiting /\ k \in Nat /\ k < Len(images) + 1
        <3>1. \A k, n : IsWaiting(k, n) => k \in Nat /\ k < Len(images) + 1
            BY FilesTyped DEF IsWaiting
        <3>. QED
            BY <3>1 DEF Waiting
    <2>6. ASSUME NEW k, NEW l, NEW m \in Frames, NEW n \in Frames,
                 IsWaiting(k, m)', IsWaiting(l, n)', k < l
          PROVE  m < n
        <3>1. Len(images) \in Nat
            BY FilesTyped
        <3>2. CASE k = Len(images) + 1 /\ m = x
            <4>1. l = Len(images) + 1 \/ (l \in Nat /\ l < Len(images) + 1)
                BY <2>2, <2>5, <2>6
            <4>. QED
                BY <2>6, <3>1, <3>2, <4>1
        <3>3. CASE IsWaiting(k, m)
            BY <2>2, <2>4, <2>5, <2>6, <3>3 DEF FramesInv, Ordered
        <3>. QED
            BY <2>2, <2>6, <3>2, <3>3
    <2>7. \A m \in Filed, n \in Open \cup Waiting' : m < n
        BY <2>3, <2>4 DEF FramesInv, Ordered
    <2>8. \A m \in Open, n \in Waiting' : m < n
        BY <2>3, <2>4 DEF FramesInv, Ordered
    <2>9. Ordered'
        BY <1>1, <2>6, <2>7, <2>8, FilesStand DEF FramesInv, Ordered
    <2>10. x \notin dropped \cup removed
        BY <1>1 DEF FramesInv, Accounted
    <2>11. Accounted'
        BY <1>1, <2>1, <2>3, <2>10, FilesStand DEF FramesInv, Accounted
    <2>. QED
        BY <2>9, <2>11 DEF FramesInv
<1>. QED
    BY <1>3, <1>4

\* The frame that the saver takes is after all that it has taken and before all
\* that waits.
LEMMA FrameTaken ==
    ASSUME TypeOK, FramesInv, NEW n \in Frames, PopImage(n)
    PROVE  /\ images' = Tail(images)
           /\ \A k : \A m \in Frames : IsWaiting(k, m)' <=> k \in Nat \ {0} /\ IsWaiting(k + 1, m)
           /\ n \in Waiting /\ Waiting' = Waiting \ {n}
           /\ \A m \in Waiting' : n < m
           /\ \A m \in Filed \cup Open : m < n
           /\ \A k, l : \A m, o \in Frames : IsWaiting(k, m)' /\ IsWaiting(l, o)' /\ k < l => m < o
<1>1. images # <<>> /\ images' = Tail(images) /\ n = Head(images)
    BY DEF PopImage
<1>2. \A k : \A m \in Frames : IsWaiting(k, m)' <=> k \in Nat \ {0} /\ IsWaiting(k + 1, m)
    BY <1>1, Popped
<1>3. \A m \in Frames : IsWaiting(1, m) <=> m = n
    BY <1>1, Popped
<1>4. n \in Waiting
    BY <1>3 DEF Waiting
<1>5. \A k : \A m \in Frames : IsWaiting(k, m) /\ k # 1 => n < m /\ IsWaiting(k - 1, m)'
    <2>1. SUFFICES ASSUME NEW k, NEW m \in Frames, IsWaiting(k, m), k # 1
                   PROVE  n < m /\ IsWaiting(k - 1, m)'
        OBVIOUS
    <2>2. k \in Nat \ {0, 1} /\ 1 < k
        BY <2>1, FilesTyped DEF IsWaiting
    <2>3. k - 1 \in Nat \ {0} /\ (k - 1) + 1 = k
        BY <2>2
    <2>4. IsWaiting(k - 1, m)'
        BY <1>2, <2>1, <2>3
    <2>5. n < m
        BY <1>3, <2>1, <2>2 DEF FramesInv, Ordered
    <2>. QED
        BY <2>4, <2>5
<1>6. \A k : \A m \in Frames : IsWaiting(k, m)' => n < m /\ m \in Waiting
    <2>1. SUFFICES ASSUME NEW k, NEW m \in Frames, IsWaiting(k, m)' PROVE n < m /\ m \in Waiting
        OBVIOUS
    <2>2. IsWaiting(k + 1, m) /\ k + 1 # 1
        BY <1>2, <2>1
    <2>. QED
        BY <1>5, <2>2 DEF Waiting
<1>7. Frames \subseteq Nat
    BY FilesTyped
<1>8. Waiting' = Waiting \ {n}
    <2>1. \A m \in Waiting' : m \in Waiting \ {n}
        BY <1>6, <1>7 DEF Waiting
    <2>2. \A m \in Waiting \ {n} : m \in Waiting'
        BY <1>3, <1>5 DEF Waiting
    <2>. QED
        BY <2>1, <2>2
<1>9. \A m \in Waiting' : n < m
    BY <1>6 DEF Waiting
<1>10. \A m \in Filed \cup Open : m < n
    BY <1>4 DEF FramesInv, Ordered
<1>11. ASSUME NEW k, NEW l, NEW m \in Frames, NEW o \in Frames,
              IsWaiting(k, m)', IsWaiting(l, o)', k < l
       PROVE  m < o
    <2>1. k \in Nat /\ l \in Nat /\ IsWaiting(k + 1, m) /\ IsWaiting(l + 1, o)
        BY <1>2, <1>11
    <2>2. k + 1 < l + 1
        BY <1>11, <2>1
    <2>. QED
        BY <2>1, <2>2 DEF FramesInv, Ordered
<1>. QED
    BY <1>1, <1>2, <1>4, <1>8, <1>9, <1>10, <1>11

LEMMA WriteImageKeeps == TypeOK /\ FramesInv /\ WriteImage => FramesInv'
<1> SUFFICES ASSUME TypeOK, FramesInv, WriteImage PROVE FramesInv'
    OBVIOUS
<1>1. PICK n \in Frames : PopImage(n) /\ current' = Append(current, n)
    BY DEF WriteImage
<1>2. UNCHANGED <<files, decoded, dropped, removed>>
    BY DEF WriteImage, source
<1>3. /\ n \in Waiting /\ Waiting' = Waiting \ {n}
      /\ \A m \in Waiting' : n < m
      /\ \A m \in Filed \cup Open : m < n
      /\ \A k, l : \A m, o \in Frames : IsWaiting(k, m)' /\ IsWaiting(l, o)' /\ k < l => m < o
    BY <1>1, FrameTaken
<1>4. \A k, m : IsOpen(k, m)' <=> IsOpen(k, m) \/ (k = Len(current) + 1 /\ m = n)
    <2>1. current \in Seq(Frames)
        BY DEF TypeOK
    <2>2. /\ Len(current) \in Nat /\ Len(current') = Len(current) + 1
          /\ \A k \in 1 .. Len(current) : current'[k] = current[k]
          /\ current'[Len(current) + 1] = n
        BY <1>1, <2>1, AppendOf
    <2>. QED
        BY <2>2 DEF IsOpen
<1>5. Open' = Open \cup {n}
    BY <1>4 DEF Open
<1>6. (\A f, k, m : InFile(f, k, m)' <=> InFile(f, k, m)) /\ Filed' = Filed
    BY <1>2 DEF InFile, Filed
<1>7. ASSUME NEW k, NEW l, NEW m, NEW o, IsOpen(k, m)', IsOpen(l, o)', k < l
      PROVE  m < o
    <2>1. Len(current) \in Nat
          /\ \A j, p : IsOpen(j, p) => p \in Open /\ j \in Nat /\ j < Len(current) + 1
        <3>1. \A j, p : IsOpen(j, p) => p \in Frames /\ j \in Nat /\ j < Len(current) + 1
            BY FilesTyped DEF IsOpen
        <3>. QED
            BY <3>1, FilesTyped DEF Open
    <2>2. CASE k = Len(current) + 1 /\ m = n
        <3>1. l = Len(current) + 1 \/ (l \in Nat /\ l < Len(current) + 1)
            BY <1>4, <1>7, <2>1
        <3>. QED
            BY <1>7, <2>1, <2>2, <3>1
    <2>3. CASE IsOpen(k, m) /\ l = Len(current) + 1 /\ o = n
        BY <1>3, <2>1, <2>3
    <2>4. CASE IsOpen(k, m) /\ IsOpen(l, o)
        BY <1>7, <2>4 DEF FramesInv, Ordered
    <2>. QED
        BY <1>4, <1>7, <2>2, <2>3, <2>4
<1>8. \A m \in Filed, o \in Open' \cup Waiting' : m < o
    BY <1>3, <1>5 DEF FramesInv, Ordered
<1>9. \A m \in Open', o \in Waiting' : m < o
    BY <1>3, <1>5 DEF FramesInv, Ordered
<1>10. Ordered'
    BY <1>3, <1>6, <1>7, <1>8, <1>9 DEF FramesInv, Ordered
<1>11. Accounted'
    BY <1>2, <1>3, <1>5, <1>6 DEF FramesInv, Accounted
<1>. QED
    BY <1>10, <1>11 DEF FramesInv

\* The frames of the file that is given up, and only they, are gone.
LEMMA WriteImageFailsKeeps == TypeOK /\ FramesInv /\ WriteImageFails => FramesInv'
<1> SUFFICES ASSUME TypeOK, FramesInv, WriteImageFails PROVE FramesInv'
    OBVIOUS
<1>1. PICK n \in Frames : PopImage(n) /\ removed' = removed \cup {n} \cup Range(current)
    BY DEF WriteImageFails
<1>2. UNCHANGED <<files, decoded, dropped>> /\ current' = <<>>
    BY DEF WriteImageFails, source
<1>3. /\ n \in Waiting /\ Waiting' = Waiting \ {n}
      /\ \A m \in Waiting' : n < m
      /\ \A m \in Filed \cup Open : m < n
      /\ \A k, l : \A m, o \in Frames : IsWaiting(k, m)' /\ IsWaiting(l, o)' /\ k < l => m < o
    BY <1>1, FrameTaken
<1>4. (\A k, m : ~IsOpen(k, m)') /\ Open' = {}
    BY <1>2 DEF IsOpen, Open
<1>5. Range(current) = Open
    <2>1. \A m \in Range(current) : m \in Open
        BY FilesTyped DEF Range, Open, IsOpen
    <2>2. \A m \in Open : m \in Range(current)
        BY FilesTyped DEF Range, Open, IsOpen
    <2>. QED
        BY <2>1, <2>2
<1>6. (\A f, k, m : InFile(f, k, m)' <=> InFile(f, k, m)) /\ Filed' = Filed
    BY <1>2 DEF InFile, Filed
<1>7. \A m \in Filed, o \in Open' \cup Waiting' : m < o
    BY <1>3, <1>4 DEF FramesInv, Ordered
<1>8. Ordered'
    BY <1>3, <1>4, <1>6, <1>7 DEF FramesInv, Ordered
<1>9. Accounted'
    <2>1. Filed \cup Open \cup Waiting \subseteq Nat
        BY FilesTyped DEF Filed, Open, Waiting
    <2>2. \A m \in Open : m \notin Filed /\ m \notin Waiting
        BY <2>1 DEF FramesInv, Ordered
    <2>3. n \notin Filed
        BY <1>3, <2>1
    <2>4. removed' = removed \cup {n} \cup Open
        BY <1>1, <1>5
    <2>5. Filed' \cup Open' \cup Waiting' = (Filed \cup Open \cup Waiting) \ ({n} \cup Open)
        BY <1>3, <1>4, <1>6, <2>2, <2>3
    <2>6. n \in 1 .. decoded /\ Open \subseteq 1 .. decoded
        BY <1>3 DEF FramesInv, Accounted
    <2>7. dropped' \cup removed' \subseteq 1 .. decoded'
        BY <1>2, <2>4, <2>6 DEF FramesInv, Accounted
    <2>8. Filed' \cup Open' \cup Waiting' = (1 .. decoded') \ (dropped' \cup removed')
        BY <1>2, <2>4, <2>5 DEF FramesInv, Accounted
    <2>. QED
        BY <2>7, <2>8 DEF Accounted
<1>. QED
    BY <1>8, <1>9 DEF FramesInv

\* The open file, unless it is empty, becomes the last of the finished ones.
LEMMA FinishFileKeeps == TypeOK /\ FramesInv /\ FinishFile => FramesInv'
<1> SUFFICES ASSUME TypeOK, FramesInv, FinishFile PROVE FramesInv'
    OBVIOUS
<1>1. /\ files' = IF current = <<>> THEN files ELSE Append(files, current)
      /\ current' = <<>> /\ UNCHANGED <<images, decoded, dropped, removed>>
    BY DEF FinishFile, source
<1> DEFINE n == Len(files)
<1>2. /\ n \in Nat
      /\ \A f, k, m : InFile(f, k, m) => f \in Nat /\ k \in Nat /\ f < n + 1 /\ m \in Filed
      /\ \A k, m : IsOpen(k, m) => k \in Nat /\ m \in Open
    <2>1. \A f, k, m : InFile(f, k, m) => f \in Nat /\ k \in Nat /\ f < n + 1 /\ m \in Frames
        BY FilesTyped DEF InFile
    <2>2. \A k, m : IsOpen(k, m) => k \in Nat /\ m \in Frames
        BY FilesTyped DEF IsOpen
    <2>. QED
        BY <2>1, <2>2, FilesTyped DEF Filed, Open
<1>3. \A f, k, m : InFile(f, k, m)' <=> InFile(f, k, m) \/ (f = n + 1 /\ IsOpen(k, m))
    <2>1. CASE current = <<>>
        BY <1>1, <2>1 DEF InFile, IsOpen
    <2>2. CASE current # <<>>
        <3>1. files \in Seq(Seq(Frames)) /\ current \in Seq(Frames)
            BY DEF TypeOK
        <3>2. files' = Append(files, current)
            BY <1>1, <2>2
        <3>3. /\ Len(files') = n + 1 /\ \A f \in 1 .. n : files'[f] = files[f]
              /\ files'[n + 1] = current
            BY <3>1, <3>2, AppendProperties
        <3>. QED
            BY <1>2, <3>3 DEF InFile, IsOpen
    <2>. QED
        BY <2>1, <2>2
<1>4. (\A k, m : ~IsOpen(k, m)') /\ Open' = {}
    BY <1>1 DEF IsOpen, Open
<1>5. (\A k, m : IsWaiting(k, m)' <=> IsWaiting(k, m)) /\ Waiting' = Waiting
    BY <1>1 DEF IsWaiting, Waiting
<1>6. Filed' = Filed \cup Open
    BY <1>3 DEF Filed, Open
<1>7. ASSUME NEW f, NEW k, NEW m, NEW g, NEW l, NEW o,
             InFile(f, k, m)', InFile(g, l, o)', f < g \/ (f = g /\ k < l)
      PROVE  m < o
    <2>1. CASE InFile(f, k, m) /\ InFile(g, l, o)
        BY <1>7, <2>1 DEF FramesInv, Ordered
    <2>2. CASE InFile(f, k, m) /\ g = n + 1 /\ IsOpen(l, o)
        BY <1>2, <2>2 DEF FramesInv, Ordered
    <2>3. CASE f = n + 1 /\ IsOpen(k, m) /\ InFile(g, l, o)
        <3>1. g < f /\ f \in Nat /\ g \in Nat
            BY <1>2, <2>3
        <3>. QED
            BY <1>7, <3>1
    <2>4. CASE f = n + 1 /\ IsOpen(k, m) /\ g = n + 1 /\ IsOpen(l, o)
        <3>1. k < l
            BY <1>2, <1>7, <2>4
        <3>. QED
            BY <2>4, <3>1 DEF FramesInv, Ordered
    <2>. QED
        BY <1>3, <1>7, <2>1, <2>2, <2>3, <2>4
<1>8. \A m \in Filed', o \in Open' \cup Waiting' : m < o
    BY <1>4, <1>5, <1>6 DEF FramesInv, Ordered
<1>9. Ordered'
    BY <1>4, <1>5, <1>7, <1>8 DEF FramesInv, Ordered
<1>10. Accounted'
    BY <1>1, <1>4, <1>5, <1>6 DEF FramesInv, Accounted
<1>. QED
    BY <1>9, <1>10 DEF FramesInv

\* Nothing that holds frames has changed.
LEMMA FramesStand ==
    ASSUME FramesInv, UNCHANGED <<images, files, current, decoded, dropped, removed>>
    PROVE  FramesInv'
<1>1. (\A k, n : IsWaiting(k, n)' <=> IsWaiting(k, n)) /\ Waiting' = Waiting
    BY DEF IsWaiting, Waiting
<1>2. Ordered'
    BY <1>1, FilesStand DEF FramesInv, Ordered
<1>3. Accounted'
    BY <1>1, FilesStand DEF FramesInv, Accounted
<1>. QED
    BY <1>2, <1>3 DEF FramesInv

LEMMA FramesKept == TypeOK /\ FramesInv /\ [Next]_vars => FramesInv'
<1> SUFFICES ASSUME TypeOK, FramesInv, [Next]_vars PROVE FramesInv'
    OBVIOUS
<1>1. CASE YielderFails \/ SignalEOS
    BY <1>1, MarkComesKeeps DEF YielderFails, SignalEOS, FilesKept, source, saver
<1>2. CASE Fails("source") \/ SourceStarts \/ IsDstCompleted \/ FeedPacket \/ SourceStops
           \/ End("source")
    BY <1>2, FramesStand DEF Fails, SourceStarts, IsDstCompleted, FeedPacket, SourceStops, End,
       source, saver
<1>3. CASE TakeEos \/ TakeBadImage
    BY <1>3, MarkGoes DEF TakeEos, TakeBadImage, PopImage, FilesKept, source, saver
<1>4. CASE \/ Fails("saver") \/ SaverStarts \/ TryPopTimesOut("saver", images)
           \/ IsSrcCompleted("saver", "source", "finish_last") \/ ForwardEos \/ End("saver")
    BY <1>4, FramesStand DEF Fails, SaverStarts, TryPopTimesOut, IsSrcCompleted, ForwardEos, End,
       source, saver
<1>5. CASE Uploader
    BY <1>5, FramesStand DEF Uploader, Fails, UploaderStarts, TakePathEos, Upload, UploadFails,
       TryPopTimesOut, IsSrcCompleted, End, source, saver
<1>6. CASE Run \/ Deadlines \/ \E w \in Workers : DetachedStep(w)
    BY <1>6, FramesStand DEF Run, Deadlines, Work, Join, JoinTimesOut, DetachedStep, source, saver
<1>7. CASE UNCHANGED vars
    BY <1>7, FramesStand DEF vars, source, saver
<1>. QED
    BY <1>1, <1>2, <1>3, <1>4, <1>5, <1>6, <1>7, PushImageKeeps, PushBadImageKeeps,
       WriteImageKeeps, WriteImageFailsKeeps, FinishFileKeeps
       DEF Next, Source, SourceEnds, Saver

\* Every decoded frame is in one place, and those kept are in the order of the
\* source: what PushImage puts behind the channel WriteImage puts behind the
\* open file, and FinishFile behind the finished ones.
THEOREM FramesAccountedCorrect == Spec => []FramesAccounted
<1>1. Init => TypeOK /\ FramesInv
    BY InitType, FramesInitial
<1>2. TypeOK /\ FramesInv /\ [Next]_vars => TypeOK' /\ FramesInv'
    BY NextType, FramesKept
<1>3. TypeOK /\ FramesInv => FramesAccounted
    BY FramesSay
<1>. QED
    BY <1>1, <1>2, <1>3, PTL DEF Spec
=============================================================================
