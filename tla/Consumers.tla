------------------------------ MODULE Consumers ------------------------------
(***************************************************************************)
(* The applications that receive a stream: playback_app, which plays a      *)
(* pipeline that begins with aissrc, and printer_app and replay_app, which  *)
(* pop packets from a receiver queue (python/apps).                         *)
(***************************************************************************)
EXTENDS AisSrc, GstLaunch

VARIABLES conAt,     \* the process: "idle", "start", "launch", "pop", "exited"
          con,       \* its flags
          conResult  \* what RunPlayback, RunPrinter returned, or "aborted"

consumerVars == <<conAt, con, conResult>>

\* replay_app's flags: range tells whether num_packets, the offsets or the
\* timestamps of its position type are acceptable.
ConsumerApps == {"playback_app", "printer_app", "replay_app"}
ConsumerOptions == [app : ConsumerApps, conn : Connections, timeout_in_sec : {-1, 0, 5, 15},
                    playback_duration_in_sec : {-1, 60}, output_mp4 : Text,
                    position_type : -1 .. 3, range : BOOLEAN]

ConsumerInit == conAt = "idle" /\ conResult = "none" /\ SrcInit

ConsumerExits(result) == conAt' = "exited" /\ conResult' = result /\ UNCHANGED con

-----------------------------------------------------------------------------
(* playback_app                                                             *)

\* AissrcCliBuilder::ValidateSettings
ValidateSrcSettings(c) ==
    /\ "" \notin {c.target_address, c.stream_name}
    /\ c.use_insecure_channel \/ "" \notin {c.ssl_domain_name, c.ssl_root_cert_path}

\* AissrcCliBuilder::Finalize: the properties of aissrc that the launch string
\* sets; receiver-name is left alone.
FinalizeSrc(o) ==
    [conn |-> [target_address |-> o.conn.target_address,
               authenticate_with_google |-> o.conn.authenticate_with_google,
               stream_name |-> o.conn.stream_name,
               use_insecure_channel |-> o.conn.use_insecure_channel,
               ssl_domain_name |-> o.conn.ssl_domain_name,
               ssl_root_cert_path |-> o.conn.ssl_root_cert_path],
     timeout_in_sec |-> o.timeout_in_sec]

PlaybackElements(o) ==
    {"decodebin", "videoconvert"} \cup
        IF o.output_mp4 = "" THEN {"autovideosink"} ELSE {"x264enc", "mp4mux", "filesink"}

\* The process ends; what a failed launch left running ends with it.
PlaybackExits(result) ==
    /\ ConsumerExits(result)
    /\ SrcGone /\ DeleteReceiver /\ UNCHANGED shown

PlaybackBegins ==
    /\ conAt = "start" /\ con.app = "playback_app"
    /\ IF ValidateSrcSettings(con.conn)
       THEN conAt' = "launch" /\ UNCHANGED <<con, conResult, receiverVars, shown, srcVars>>
       ELSE PlaybackExits("INVALID_ARGUMENT")
    /\ UNCHANGED launchVars

PlaybackLaunchFails ==
    /\ conAt = "launch" /\ LaunchFails("playback_app") /\ PlaybackExits("UNKNOWN")

PlaybackBuilds ==
    /\ conAt = "launch" /\ LaunchBuilds("playback_app")
    /\ PlaybackElements(con) \subseteq Installed
    /\ srcAt' = "null" /\ srcProps' = FinalizeSrc(con) /\ ais_receiver' = "NULL"
    /\ UNCHANGED <<consumerVars, receiverVars, shown>>

PlaybackStarts ==
    /\ launch["playback_app"] = "built" /\ SrcStart
    /\ UNCHANGED <<launchVars, consumerVars>>

PlaybackPlays ==
    /\ srcAt # "null" /\ LaunchPlays("playback_app", con.playback_duration_in_sec)
    /\ UNCHANGED <<consumerVars, receiverVars, shown, srcVars>>

\* aissrc does not start, or after it another element.
PlaybackPlayFails ==
    /\ conAt = "launch" /\ LaunchPlayFails("playback_app")
    /\ srcAt = "null" => ~ChannelMade(srcProps.conn)
    /\ PlaybackExits("UNKNOWN")

\* The streaming thread: an EOS event that was sent into the pipeline is seen
\* between two creates.
StreamingThread ==
    /\ launch["playback_app"] \in {"playing", "stopping"}
    /\ \/ ~eosEvent["playback_app"] /\ CreateBegins /\ UNCHANGED bus
       \/ CreateReturns("OK") /\ UNCHANGED bus
       \/ \E flow \in {"EOS", "ERROR"} : CreateReturns(flow) /\ Post("playback_app", flow)
       \/ /\ srcAt = "started" /\ eosEvent["playback_app"]
          /\ srcAt' = "ended" /\ Post("playback_app", "EOS")
          /\ UNCHANGED <<srcProps, ais_receiver, receiverVars, shown>>
    /\ UNCHANGED <<launch, returned, stopper, eosEvent, consumerVars>>

\* Another element of the pipeline posts an error.
DownstreamFails ==
    /\ launch["playback_app"] = "playing" /\ bus["playback_app"] = {}
    /\ Post("playback_app", "ERROR")
    /\ UNCHANGED <<launch, returned, stopper, eosEvent, consumerVars, receiverVars, shown, srcVars>>

PlaybackStopper ==
    StopperWakes("playback_app") /\ UNCHANGED <<consumerVars, receiverVars, shown, srcVars>>

PlaybackPops ==
    LaunchPops("playback_app") /\ UNCHANGED <<consumerVars, receiverVars, shown, srcVars>>

PlaybackStops ==
    /\ launch["playback_app"] = "stopping" /\ SrcStop
    /\ UNCHANGED <<launchVars, consumerVars>>

\* GstLaunchPipeline returns OK after an EOS and after an ERROR.
PlaybackReturns ==
    /\ srcAt = "null" /\ LaunchReturns("playback_app") /\ SrcGone
    /\ UNCHANGED <<consumerVars, receiverVars, shown>>

\* main returns, and a stopper that still sleeps ends with the process.
PlaybackEnds ==
    /\ conAt = "launch" /\ returned["playback_app"] = "OK"
    /\ PlaybackExits("OK") /\ LaunchReset("playback_app")

PlaybackNext ==
    \/ PlaybackBegins \/ PlaybackLaunchFails \/ PlaybackBuilds \/ PlaybackStarts
    \/ PlaybackPlays \/ PlaybackPlayFails \/ PlaybackPops \/ PlaybackStops \/ PlaybackReturns
    \/ PlaybackEnds

PlaybackEnvironment == DownstreamFails \/ PlaybackStopper

-----------------------------------------------------------------------------
(* printer_app and replay_app                                               *)

\* OffsetOptions of replay_app: the position types 2 and 3 set an offset and
\* leave reset_offset FALSE, with which no request carries it.
Seek(o) ==
    CASE o.app = "replay_app" /\ o.position_type = 0 -> "beginning"
      [] o.app = "replay_app" /\ o.position_type = 1 -> "end"
      [] OTHER -> "any"

\* stop_receive.  Beyond the default it reads a variable of a block that has
\* been left: it may say anything.
StopReceive(o) == IF o.app = "replay_app" /\ o.position_type >= 0 THEN BOOLEAN ELSE {FALSE}

QueueBegins ==
    /\ conAt = "start" /\ con.app # "playback_app"
    /\ IF con.app = "replay_app" /\ con.position_type >= 0 /\ ~con.range
       THEN ConsumerExits("INVALID_ARGUMENT") /\ UNCHANGED <<receiverVars, shown>>
       ELSE \/ /\ CreateReceiver(con.conn, Seek(con))
               /\ conAt' = "pop" /\ UNCHANGED <<con, conResult>>
            \/ CreateReceiverFails(con.conn) /\ ConsumerExits("UNKNOWN")

\* The loop of RunPrinter
Pop ==
    /\ conAt = "pop"
    /\ \/ PopTimesOut(con.timeout_in_sec) /\ ConsumerExits("DEADLINE_EXCEEDED")
       \/ \E p \in ToSet(rqueue), stop \in StopReceive(con) :
              /\ Pops(p)
              /\ IF IsEos(p) \/ stop THEN ConsumerExits("OK") ELSE UNCHANGED consumerVars

QueueNext == (QueueBegins \/ Pop) /\ UNCHANGED <<srcVars, launchVars>>

\* The worker of the receiver aborts the process, with whatever runs in it.
ConsumerAborts ==
    /\ conAt \in {"launch", "pop"} /\ FinishAgain
    /\ ConsumerExits("aborted") /\ LaunchReset("playback_app")

-----------------------------------------------------------------------------
(* Properties.                                                              *)

\* A consumer with a timeout ends: a silent stream times it out, a stream that
\* ends or breaks gives it an EOS, and set_state(NULL) waits for a create that
\* returns.  (Without a timeout a silent stream keeps it for ever, whatever
\* --playback_duration_in_sec says.)
ConsumersEnd ==
    (conAt \in {"launch", "pop"} /\ con.timeout_in_sec >= 0) ~> (conAt = "exited")
=============================================================================
