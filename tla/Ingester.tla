------------------------------- MODULE Ingester -------------------------------
(***************************************************************************)
(* ingester_app (python/apps/ingester_app.cc), Ingest (cc/ingesters.cc) and *)
(* the AissinkCliBuilder: from options to a pipeline that ends in aissink,  *)
(* played once, or again and again with --loop.  The other elements of the  *)
(* pipeline are external: a source with a few buffers, which may fail.      *)
(***************************************************************************)
EXTENDS AisSink, GstLaunch

CONSTANTS MaxBuffers,  \* bound: buffers of a source
          MaxLoops     \* bound: iterations of ingester_app

ASSUME IngestAssumption == MaxBuffers \in Nat \ {0} /\ MaxLoops \in Nat \ {0}

VARIABLES ingAt,     \* the process: "idle", "start", "launch", "exited", "killed"
          ing,       \* its options: connection, source and codec
          iteration, \* loop_count
          left       \* buffers the source has left in this iteration

ingestVars == <<ingAt, ing, iteration, left>>

\* source: what the uri has in front of "://", and whether a file is there
Sources == {"file", "no file", "rtsp", "http"}
SendCodecs == {"native", "h264", "jpeg", "rgb"}
IngestOptions == [conn : Connections, source : Sources, send_codec : SendCodecs,
                  resize : BOOLEAN, loop : BOOLEAN]

HasProtocolPrefix(source) == source \notin {"file", "no file"}

\* GetInputSrcType, DecideInputPlugin
DecideInputPlugin(source) ==
    CASE ~HasProtocolPrefix(source) -> "filesrc"
      [] source = "rtsp"            -> "rtspsrc"
      [] OTHER                      -> "urisourcebin"

DecideParserPlugin(source) ==
    IF source = "rtsp" THEN <<"rtph264depay", "h264parse">> ELSE <<"parsebin">>

IsTranscodeRequired(o) == o.send_codec # "native" \/ o.resize

DecideResizePlugin(o) == IF o.resize THEN <<"videoscale">> ELSE <<>>

\* A resize without a codec is encoded as H264.
DecideEncoderPlugins(o) ==
    CASE o.send_codec = "jpeg" -> <<"jpegenc">>
      [] o.send_codec = "rgb"  -> <<"videoconvert">>
      [] OTHER                 -> <<"h264enc">>

\* AissinkCliBuilder::ValidateSettings
ValidateSettings(c) ==
    /\ "" \notin {c.target_address, c.stream_name}
    /\ c.use_insecure_channel \/ "" \notin {c.ssl_domain_name, c.ssl_root_cert_path}

\* DecideGstLaunchPipeline: the elements before aissink
DecideGstLaunchPipeline(o) ==
    <<DecideInputPlugin(o.source)>> \o DecideParserPlugin(o.source)
        \o IF IsTranscodeRequired(o)
           THEN <<"decodebin">> \o DecideResizePlugin(o) \o DecideEncoderPlugins(o)
           ELSE <<>>

\* AissinkCliBuilder::Finalize: the properties of aissink that the launch string
\* sets, in its order.
Finalize(c) ==
    [target_address |-> c.target_address,
     authenticate_with_google |-> c.authenticate_with_google,
     stream_name |-> c.stream_name, use_insecure_channel |-> c.use_insecure_channel,
     ssl_domain_name |-> c.ssl_domain_name, ssl_root_cert_path |-> c.ssl_root_cert_path]

-----------------------------------------------------------------------------
IngestInit ==
    /\ ingAt = "idle" /\ iteration = 0 /\ left = 0
    /\ SinkInit

\* Ingest returns an error: RunIngester leaves its loop.  A sender that a failed
\* launch left behind ends with the process.
IngestExits ==
    /\ ingAt' = "exited"
    /\ IF writer = "none" THEN UNCHANGED <<log, senderVars>> ELSE AbandonSender

\* RunIngester calls Ingest: the file has to exist, the builder has to accept
\* the options.
IngestBegins ==
    /\ ingAt = "start"
    /\ iteration' = iteration + 1
    /\ IF ing.source = "no file" \/ ~ValidateSettings(ing.conn)
       THEN IngestExits ELSE ingAt' = "launch" /\ UNCHANGED <<log, senderVars>>
    /\ UNCHANGED <<ing, left, sinkVars, launchVars>>

\* GstLaunchPipeline does not get as far as a pipeline.
IngestLaunchFails ==
    /\ ingAt = "launch" /\ LaunchFails("ingester_app")
    /\ IngestExits
    /\ UNCHANGED <<ing, iteration, left, sinkVars>>

\* gst_parse_launch with the string of DecideGstLaunchPipeline: every element is
\* made, aissink with the properties of its part of the string.
IngestBuilds ==
    /\ ingAt = "launch" /\ LaunchBuilds("ingester_app")
    /\ ToSet(DecideGstLaunchPipeline(ing)) \subseteq Installed
    /\ sinkAt' = "null" /\ sinkProps' = Finalize(ing.conn) /\ ais_sender' = "NULL"
    /\ left' = MaxBuffers
    /\ UNCHANGED <<ingAt, ing, iteration, ais_status, lost, log, senderVars>>

\* set_state(PLAYING) starts aissink before the source.
IngestPlays ==
    /\ sinkAt = "null" /\ SinkStart /\ launch["ingester_app"] = "built"
    /\ UNCHANGED <<launchVars, ingestVars>>

IngestPlaying ==
    /\ sinkAt = "started" /\ LaunchPlays("ingester_app", -1)
    /\ UNCHANGED <<ingestVars, sinkVars, log, senderVars>>

\* aissink, or after it the source, does not start.
IngestPlayFails ==
    /\ ingAt = "launch" /\ LaunchPlayFails("ingester_app")
    /\ sinkAt = "null" => ~ChannelMade(sinkProps)
    /\ IngestExits
    /\ SinkGone
    /\ UNCHANGED <<ing, iteration, left>>

-----------------------------------------------------------------------------
(* The streaming thread.                                                    *)

SourcePushes ==
    /\ launch["ingester_app"] = "playing" /\ left > 0 /\ bus["ingester_app"] = {}
    /\ RenderBegins
    /\ UNCHANGED <<ingestVars, launchVars>>

Buffer == BufferPacket(MaxBuffers + 1 - left)

Rendered ==
    /\ launch["ingester_app"] \in {"playing", "stopping"}
    /\ \/ (RenderDrops \/ RenderSends(Buffer)) /\ UNCHANGED launchVars
       \/ /\ RenderFails(Buffer) /\ Post("ingester_app", "ERROR")
          /\ UNCHANGED <<launch, returned, stopper, eosEvent>>
    /\ left' = left - 1
    /\ UNCHANGED <<ingAt, ing, iteration>>

\* The source is at its end, or fails.
SourceEnds ==
    /\ launch["ingester_app"] = "playing" /\ bus["ingester_app"] = {} /\ sinkAt = "started"
    /\ \/ left = 0 /\ Post("ingester_app", "EOS")
       \/ Post("ingester_app", "ERROR")
    /\ UNCHANGED <<launch, returned, stopper, eosEvent, ingestVars, sinkVars, log, senderVars>>

-----------------------------------------------------------------------------
(* Back in the main thread.                                                 *)

IngestPops ==
    LaunchPops("ingester_app") /\ UNCHANGED <<ingestVars, sinkVars, log, senderVars>>

\* set_state(NULL) stops aissink, once the streaming thread has left it.
IngestStops ==
    /\ launch["ingester_app"] = "stopping"
    /\ StopSendsEos(MaxBuffers + 1) \/ StopDeletesSender \/ StopReturns
    /\ UNCHANGED <<ingestVars, launchVars>>

\* Ingest returns OK, after an EOS and after an ERROR.  RunIngester plays the
\* source again or leaves its loop.
IngestReturns ==
    /\ sinkAt = "null" /\ LaunchReturns("ingester_app") /\ SinkGone
    /\ UNCHANGED <<ingestVars, log, senderVars>>

IngestNextIteration ==
    /\ ingAt = "launch" /\ launch["ingester_app"] = "returned"
    /\ returned["ingester_app"] = "OK"
    /\ IF ing.loop THEN iteration < MaxLoops /\ ingAt' = "start" ELSE ingAt' = "exited"
    /\ LaunchReset("ingester_app")
    /\ UNCHANGED <<ing, iteration, left, sinkVars, log, senderVars>>

\* The user ends the process: nothing is flushed, no EOS is sent.
IngestKilled ==
    /\ ingAt = "launch" /\ ingAt' = "killed"
    /\ AbandonSender /\ SinkGone /\ LaunchReset("ingester_app")
    /\ UNCHANGED <<ing, iteration, left>>

IngestNext ==
    \/ IngestBegins \/ IngestLaunchFails \/ IngestBuilds \/ IngestPlays
    \/ IngestPlaying \/ IngestPlayFails \/ SourcePushes \/ Rendered \/ SourceEnds
    \/ IngestPops \/ IngestStops \/ IngestReturns \/ IngestNextIteration

-----------------------------------------------------------------------------
(* Properties.                                                              *)

\* When a source has been played to its end, and the stop that follows has sent
\* its EOS and finished its rpc, the stream has every buffer that no render
\* dropped, in order, and then the EOS: nothing is lost silently elsewhere,
\* nothing is sent twice.
SourceDelivered ==
    (/\ bus["ingester_app"] = {"EOS"} /\ sinkAt = "null"
     /\ finish = "OK" /\ ais_status = "OK") =>
        /\ InOrder /\ AllDelivered /\ sent # <<>> /\ IsEos(Last(sent))
        /\ \A i \in 1 .. Len(sent) - 1 : ~IsEos(sent[i])
        /\ Len(sent) - 1 + lost = MaxBuffers
=============================================================================
