-------------------------------- MODULE Chunker --------------------------------
(***************************************************************************)
(* chunker_app (python/apps/chunker_app.cc): from flags to the options of a *)
(* GstreamerVideoExporter, whose run is modelled by VideoExporter.          *)
(***************************************************************************)
EXTENDS Integers, StreamChannel

VARIABLES chunkAt,   \* the process: "idle", "start", "export", "exited"
          chunk,     \* its flags
          exporter   \* the options RunChunker made

chunkVars == <<chunkAt, chunk, exporter>>

\* A uri: what it has in front of "://", if anything.
Uris == {"", "file", "rtsp"}
ChunkFlags == [use_uri_source : BOOLEAN, source_uri : Uris,
               use_gstreamer_input_source : BOOLEAN, gstreamer_input_pipeline : Text,
               upload_to_gcs : BOOLEAN, gcs_bucket_name : Text, keep_local : BOOLEAN,
               working_buffer_size : {0, 100}, conn : Connections]

\* DecideUriGstreamerPipeline: the element that reads the uri stands for the
\* pipeline.
DecideUriGstreamerPipeline(uri) == IF uri = "file" THEN "filesrc" ELSE "uridecodebin"

\* RunChunker, up to GstreamerVideoExporter::Create.  A uri takes the place of a
\* GStreamer pipeline, a GStreamer pipeline that of a stream.
ExporterOptions(f) ==
    [source |-> IF f.use_uri_source \/ f.use_gstreamer_input_source THEN "gstreamer" ELSE "stream",
     pipeline |-> IF f.use_uri_source THEN DecideUriGstreamerPipeline(f.source_uri)
                  ELSE f.gstreamer_input_pipeline,
     upload_to_gcs |-> f.upload_to_gcs, gcs_bucket_name |-> f.gcs_bucket_name,
     keep_local |-> f.keep_local, conn |-> f.conn,
     working_buffer_size |-> f.working_buffer_size]

\* GstreamerVideoExporter::Create refuses a working buffer without room.
Accepted(o) == o.working_buffer_size > 0

RunChunker ==
    /\ chunkAt = "start"
    /\ IF chunk.use_uri_source /\ chunk.source_uri = ""
       THEN chunkAt' = "exited" /\ UNCHANGED exporter
       ELSE /\ exporter' = ExporterOptions(chunk)
            /\ chunkAt' = IF Accepted(exporter') THEN "export" ELSE "exited"
    /\ UNCHANGED chunk

\* Run returns.  With and without an error the process exits with 0.
ChunkerEnds == chunkAt = "export" /\ chunkAt' = "exited" /\ UNCHANGED <<chunk, exporter>>

ChunkNext == RunChunker \/ ChunkerEnds
=============================================================================
