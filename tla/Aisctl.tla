-------------------------------- MODULE Aisctl --------------------------------
(***************************************************************************)
(* aisctl (python/cli): a command line becomes the flags of an application, *)
(* which takes the place of the process.  This module composes the          *)
(* applications with the stream, the servers and one another; a scenario    *)
(* says which commands are typed, what else runs, and how much of it.       *)
(***************************************************************************)
EXTENDS ManagerApp, Ingester, Consumers, Chunker, PacketProgram

CONSTANT Scenarios
\* A scenario is a record: commands, a set of command lines; runs, which of the
\* programs "direct" (a user of PacketSender), "sink" and "src" (users of the
\* elements) and "packets" (a user of packets) run; others, the packets other
\* producers send at most; killed, whether the user may kill ingester_app.

VARIABLE typed  \* the scenario

manageVars == <<managementVars, mgrVars>>
produceVars == <<log, senderVars, direct, sinkVars, ingestVars>>
consumeVars == <<receiverVars, shown, srcVars, consumerVars>>
vars == <<typed, manageVars, produceVars, consumeVars, launchVars, chunkVars, packetVars>>

-----------------------------------------------------------------------------
(* The command line.  An option that is not given is None.                  *)

\* normalize_string_for_commandline, to_cpp_bool_string
NoText == ""
Normalize(s) == IF s = "None" THEN NoText ELSE s
CppBool(b) == b
CppBoolOfString(s) == s # NoText

\* The commands of the three groups that execute manager_app: the op id that
\* each passes, as a number, and whether it takes a name (and, of a cluster,
\* a region).
Command(id, named) == [op_id |-> id, named |-> named]
StreamCommands ==
    [create |-> Command(0, TRUE), delete |-> Command(2, TRUE), list |-> Command(1, FALSE)]
ClusterCommands ==
    [create |-> Command(3, TRUE), delete |-> Command(5, TRUE), list |-> Command(4, FALSE)]
OnpremCommands ==
    [create |-> Command(0, TRUE), delete |-> Command(2, TRUE), list |-> Command(1, FALSE)]

\* The flags of manager_app that no argument sets
DefaultFlags == [op_id |-> -1, use_google_managed_service |-> TRUE,
                 target_address |-> "", project |-> "", location |-> "given",
                 cluster_name |-> "", stream_name |-> "",
                 use_insecure_channel |-> TRUE, ssl_root_cert_path |-> ""]

ManagedStreamFlags(c) ==
    [DefaultFlags EXCEPT
        !.op_id = StreamCommands[c.verb].op_id, !.use_google_managed_service = CppBool(TRUE),
        !.target_address = Normalize(c.address), !.project = Normalize(c.project),
        !.cluster_name = Normalize(c.cluster), !.location = Normalize(c.region),
        !.stream_name = IF StreamCommands[c.verb].named THEN Normalize(c.name) ELSE @]

\* A list of clusters is not given a region.
ManagedClusterFlags(c) ==
    [DefaultFlags EXCEPT
        !.op_id = ClusterCommands[c.verb].op_id, !.use_google_managed_service = CppBool(TRUE),
        !.target_address = Normalize(c.address), !.project = Normalize(c.project),
        !.location = IF ClusterCommands[c.verb].named THEN Normalize(c.region) ELSE @,
        !.cluster_name = IF ClusterCommands[c.verb].named THEN Normalize(c.name) ELSE @]

OnpremStreamFlags(c) ==
    [DefaultFlags EXCEPT
        !.op_id = OnpremCommands[c.verb].op_id, !.use_google_managed_service = CppBool(FALSE),
        !.target_address = Normalize(c.address),
        !.use_insecure_channel = CppBool(c.use_insecure_channel),
        !.ssl_root_cert_path = Normalize(c.ssl_root_cert_path),
        !.stream_name = IF OnpremCommands[c.verb].named THEN Normalize(c.name) ELSE @]

ManagerFlags(c) ==
    CASE c.cmd = "managed stream"  -> ManagedStreamFlags(c)
      [] c.cmd = "managed cluster" -> ManagedClusterFlags(c)
      [] c.cmd = "onprem stream"   -> OnpremStreamFlags(c)
      [] c.cmd = "manager_app"     -> [DefaultFlags EXCEPT !.op_id = c.op_id,
                                           !.target_address = c.address, !.project = "given",
                                           !.cluster_name = c.name]

\* The connection options every other command has
ConnFlags(c) ==
    [target_address |-> Normalize(c.conn.target_address),
     stream_name |-> Normalize(c.conn.stream_name),
     ssl_domain_name |-> Normalize(c.conn.ssl_domain_name),
     ssl_root_cert_path |-> Normalize(c.conn.ssl_root_cert_path),
     authenticate_with_google |-> CppBool(c.conn.authenticate_with_google),
     use_insecure_channel |-> CppBool(c.conn.use_insecure_channel)]

IngestFlags(c) ==
    [conn |-> ConnFlags(c), source |-> c.source, loop |-> CppBool(c.loop),
     send_codec |-> c.send_codec, resize |-> c.resize]

DefaultConsumer == [app |-> "printer_app", conn |-> NoConn, timeout_in_sec |-> 60,
                    playback_duration_in_sec |-> -1, output_mp4 |-> "",
                    position_type |-> -1, range |-> FALSE]

PlaybackFlags(c) ==
    [DefaultConsumer EXCEPT
        !.app = "playback_app", !.conn = ConnFlags(c), !.timeout_in_sec = c.timeout,
        !.playback_duration_in_sec = c.duration, !.output_mp4 = Normalize(c.mp4)]

PrinterFlags(c) ==
    [DefaultConsumer EXCEPT !.conn = ConnFlags(c), !.timeout_in_sec = c.timeout]

\* replay_app has no command.
ReplayFlags(c) ==
    [DefaultConsumer EXCEPT
        !.app = "replay_app", !.conn = ConnFlags(c), !.timeout_in_sec = c.timeout,
        !.position_type = c.position_type, !.range = c.range]

ConsumerFlags(c) ==
    CASE c.cmd = "playback" -> PlaybackFlags(c)
      [] c.cmd = "print"    -> PrinterFlags(c)
      [] c.cmd = "replay"   -> ReplayFlags(c)

DefaultChunk == [use_uri_source |-> TRUE, source_uri |-> "",
                 use_gstreamer_input_source |-> FALSE, gstreamer_input_pipeline |-> "",
                 upload_to_gcs |-> FALSE, gcs_bucket_name |-> "", keep_local |-> FALSE,
                 working_buffer_size |-> 100,
                 conn |-> [NoConn EXCEPT !.target_address = "a", !.ssl_domain_name = "given",
                                         !.use_insecure_channel = TRUE]]

\* The commands stream, uri and gstreamer: the arguments that only they have.
ChunkStream(c, f) == [f EXCEPT !.conn = ConnFlags(c)]
ChunkUri(c, f) == [f EXCEPT !.use_uri_source = CppBool(TRUE), !.source_uri = Normalize(c.input)]
ChunkGstreamer(c, f) ==
    [f EXCEPT !.use_gstreamer_input_source = CppBool(TRUE),
              !.gstreamer_input_pipeline = Normalize(c.input)]

\* _exec_chunker_app
ChunkFlagsOf(c) ==
    LET common == [DefaultChunk EXCEPT
                      !.upload_to_gcs = CppBoolOfString(c.bucket),
                      !.gcs_bucket_name = Normalize(c.bucket),
                      !.keep_local = CppBool(c.keep_local),
                      !.use_uri_source = CppBool(FALSE),
                      !.working_buffer_size = c.size]
    IN  CASE c.sub = "stream"    -> ChunkStream(c, common)
          [] c.sub = "uri"       -> ChunkUri(c, common)
          [] c.sub = "gstreamer" -> ChunkGstreamer(c, common)

ManagerCommands == {"managed stream", "managed cluster", "onprem stream", "manager_app"}
ConsumerCommands == {"playback", "print", "replay"}

\* A scenario has one process of each application, one program that sends and
\* one that receives.  A group has these verbs, chunk these commands; a bucket
\* that is not given is an empty one, a uri or a pipeline has to be given.
ASSUME ScenariosAssumption ==
    \A s \in Scenarios :
        /\ \A group \in {ManagerCommands, {"ingest"}, ConsumerCommands, {"chunk"}} :
               \A c, d \in s.commands : c.cmd \in group /\ d.cmd \in group => c = d
        /\ \A c \in s.commands :
               /\ c.cmd = "ingest" => s.runs \cap {"direct", "sink"} = {}
               /\ c.cmd \in ConsumerCommands => "src" \notin s.runs
               /\ c.cmd \in ManagerCommands \ {"manager_app"} =>
                      c.verb \in {"create", "delete", "list"}
               /\ c.cmd = "chunk" => /\ c.sub \in {"uri", "gstreamer", "stream"}
                                     /\ "None" \notin {c.bucket, c.input}
        /\ ~({"direct", "sink"} \subseteq s.runs)

\* main of aisctl, the command's function and its execlp
CliExec(c) ==
    \/ /\ c.cmd \in ManagerCommands /\ mgrAt = "idle"
       /\ mgrAt' = "start" /\ flags' = ManagerFlags(c) /\ UNCHANGED logged
       /\ UNCHANGED <<managementVars, produceVars, consumeVars, launchVars, chunkVars>>
    \/ /\ c.cmd = "ingest" /\ ingAt = "idle"
       /\ ingAt' = "start" /\ ing' = IngestFlags(c) /\ UNCHANGED <<iteration, left>>
       /\ UNCHANGED <<manageVars, log, senderVars, direct, sinkVars,
                      consumeVars, launchVars, chunkVars>>
    \/ /\ c.cmd \in ConsumerCommands /\ conAt = "idle"
       /\ conAt' = "start" /\ con' = ConsumerFlags(c) /\ UNCHANGED conResult
       /\ UNCHANGED <<manageVars, produceVars, receiverVars, shown, srcVars,
                      launchVars, chunkVars>>
    \/ /\ c.cmd = "chunk" /\ chunkAt = "idle"
       /\ chunkAt' = "start" /\ chunk' = ChunkFlagsOf(c) /\ UNCHANGED exporter
       /\ UNCHANGED <<manageVars, produceVars, consumeVars, launchVars>>

-----------------------------------------------------------------------------
Init ==
    /\ typed \in Scenarios
    /\ ManagementInit /\ MgrInit /\ flags = DefaultFlags
    /\ (\A c \in typed.commands : c.cmd \notin ManagerCommands) => resources = [k \in Kinds |-> {}]
    /\ SenderInit /\ IngestInit /\ LaunchInit
    /\ ing = [conn |-> NoConn, source |-> "file", send_codec |-> "native",
              resize |-> FALSE, loop |-> FALSE]
    /\ ConsumerInit /\ con = DefaultConsumer
    /\ chunkAt = "idle" /\ chunk = DefaultChunk /\ exporter = ExporterOptions(DefaultChunk)
    /\ PacketInit

Cli == (\E c \in typed.commands : CliExec(c)) /\ UNCHANGED <<typed, packetVars>>

ManagerStep ==
    /\ MgrNext
    /\ UNCHANGED <<typed, packetVars, produceVars, consumeVars, launchVars, chunkVars>>

ManagementServer ==
    /\ ServerNext
    /\ UNCHANGED <<typed, packetVars, mgrVars, produceVars, consumeVars, launchVars, chunkVars>>

IngesterStep ==
    /\ IngestNext
    /\ UNCHANGED <<typed, packetVars, manageVars, direct, consumeVars, chunkVars>>

Kill ==
    /\ typed.killed /\ IngestKilled
    /\ UNCHANGED <<typed, packetVars, manageVars, direct, consumeVars, chunkVars>>

\* The servers of the stream and the network
StreamStep ==
    /\ \/ SenderEnvironment
       \/ /\ Len(Foreign) < typed.others /\ OtherProducer
    /\ UNCHANGED <<typed, packetVars, manageVars, sinkVars, ingestVars, consumeVars, launchVars, chunkVars>>

ReceiverStep ==
    /\ ReceiverNext
    /\ UNCHANGED <<typed, packetVars, manageVars, produceVars, consumerVars, launchVars, chunkVars>>

ConsumerStep ==
    /\ PlaybackNext \/ StreamingThread \/ QueueNext
    /\ UNCHANGED <<typed, packetVars, manageVars, produceVars, chunkVars>>

ConsumerEnvironment ==
    /\ PlaybackEnvironment \/ ConsumerAborts
    /\ UNCHANGED <<typed, packetVars, manageVars, produceVars, chunkVars>>

ChunkerStep ==
    /\ ChunkNext
    /\ UNCHANGED <<typed, packetVars, manageVars, produceVars, consumeVars, launchVars>>

\* Programs other than the applications
DirectStep ==
    /\ "direct" \in typed.runs /\ DirectNext
    /\ UNCHANGED <<typed, packetVars, manageVars, sinkVars, ingestVars, consumeVars, launchVars, chunkVars>>

SinkStep ==
    /\ "sink" \in typed.runs /\ AppNext
    /\ UNCHANGED <<typed, packetVars, manageVars, direct, ingestVars, consumeVars, launchVars, chunkVars>>

SrcStep ==
    /\ "src" \in typed.runs /\ SrcAppNext
    /\ UNCHANGED <<typed, packetVars, manageVars, produceVars, consumerVars, launchVars, chunkVars>>

PacketStep ==
    /\ "packets" \in typed.runs /\ PacketNext
    /\ UNCHANGED <<typed, manageVars, produceVars, consumeVars, launchVars, chunkVars>>

Next ==
    \/ Cli \/ ManagerStep \/ ManagementServer \/ IngesterStep \/ Kill \/ StreamStep
    \/ ReceiverStep \/ ConsumerStep \/ ConsumerEnvironment \/ ChunkerStep
    \/ DirectStep \/ SinkStep \/ SrcStep \/ PacketStep

Spec == Init /\ [][Next]_vars

\* Processes and their threads run on; the managed service answers its rpcs, an
\* on-prem rpc waits for its server without a deadline.
Fairness ==
    /\ WF_vars(Cli)
    /\ WF_vars(ManagerStep /\ (call.kind = "onprem" => at # "rpc"))
    /\ WF_vars(ConsumerStep)

FairSpec == Spec /\ Fairness

-----------------------------------------------------------------------------
(* Properties.                                                              *)

KindOf(c) == CASE c.cmd = "managed stream"  -> "stream"
               [] c.cmd = "managed cluster" -> "cluster"
               [] c.cmd = "onprem stream"   -> "onprem"

\* The connection c is the one whose options were typed; one that was not given
\* is empty.
ConnectsAsTyped(c, options) ==
    /\ \A name \in {"target_address", "stream_name", "ssl_domain_name", "ssl_root_cert_path"} :
           c[name] = options[name] \/ (options[name] = "None" /\ c[name] = NoText)
    /\ \A name \in {"authenticate_with_google", "use_insecure_channel"} : c[name] = options[name]

\* The source, the bucket and the fate of the local files are those that were
\* typed; a uri without a protocol is a file.
ExportsAsTyped(c) ==
    /\ exporter.upload_to_gcs = (c.bucket # NoText) /\ exporter.gcs_bucket_name = c.bucket
    /\ exporter.keep_local = c.keep_local
    /\ exporter.source = IF c.sub = "stream" THEN "stream" ELSE "gstreamer"
    /\ c.sub = "stream" => ConnectsAsTyped(exporter.conn, c.conn)
    /\ c.sub = "uri" =>
           exporter.pipeline = IF c.input = "file" THEN "filesrc" ELSE "uridecodebin"
    /\ c.sub = "gstreamer" => exporter.pipeline = c.input

\* What is done is what was typed, although the op ids are numbers on one side
\* and an enumeration on the other, and the options pass through flags, a launch
\* string and properties: the call of the management client, the connection of
\* a sender and of a receiver, the source and the upload of an exporter.
RunsAsAsked ==
    \A c \in typed.commands :
        /\ c.cmd \in ManagerCommands \ {"manager_app"} /\ call # NoCall =>
               /\ call.kind = KindOf(c) /\ call.verb = c.verb
               /\ c.verb # "list" => call.name = c.name
        /\ c.cmd = "ingest" /\ session > 0 => ConnectsAsTyped(conn, c.conn)
        /\ c.cmd \in ConsumerCommands /\ receiver # NoReceiver =>
               ConnectsAsTyped(receiver.conn, c.conn)
        /\ c.cmd = "chunk" /\ chunkAt = "export" => ExportsAsTyped(c)

\* While an element is connected, what its guarded properties show is what it is
\* connected with: they cannot be changed under a live sender or receiver,
\* however the element has been stopped, set and started before.
ConnectedAsShown == SinkConnectedAsShown /\ SrcConnectedAsShown

\* A call of the managed service ends, after 1 + kMaxTrials polls at most.
ManagedCallsEnd == (mgrAt = "call" /\ call.kind # "onprem") ~> (mgrAt = "exited")

\* The commands that must end by themselves do.
CommandsEnd == ManagedCallsEnd /\ ConsumersEnd
=============================================================================
