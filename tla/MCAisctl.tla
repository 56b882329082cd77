------------------------------- MODULE MCAisctl -------------------------------
\* Instances of Aisctl for TLC: the command lines of each scenario.
EXTENDS Aisctl

Insecure == [target_address |-> "a", stream_name |-> "s", ssl_domain_name |-> "given",
             ssl_root_cert_path |-> "None", authenticate_with_google |-> FALSE,
             use_insecure_channel |-> TRUE]
Secure == [Insecure EXCEPT !.ssl_root_cert_path = "readable", !.use_insecure_channel = FALSE]
Google == [Secure EXCEPT !.authenticate_with_google = TRUE]
BadConnections == {[Secure EXCEPT !.ssl_root_cert_path = "None"],
                   [Secure EXCEPT !.ssl_root_cert_path = "missing"],
                   [Insecure EXCEPT !.stream_name = ""]}

\* A managed command with its options as they should be, and with each of two
\* left empty.
Managed(cmd, verb) ==
    {[cmd |-> cmd, verb |-> verb, address |-> "given", project |-> p, cluster |-> "given",
      region |-> "given", name |-> n] : p \in {"given", ""}, n \in {"s", ""}}
Onprem(verb) ==
    {[cmd |-> "onprem stream", verb |-> verb, address |-> o[1], ssl_root_cert_path |-> o[2],
      use_insecure_channel |-> o[3], name |-> n] :
        n \in {"s", ""},
        o \in {<<"given", "None", TRUE>>, <<"given", "readable", FALSE>>,
               <<"given", "missing", FALSE>>, <<"None", "None", TRUE>>}}
ManagerLines ==
    UNION {Managed("managed stream", v) \cup Managed("managed cluster", v) \cup Onprem(v) :
               v \in {"create", "list", "delete"}}
        \cup {[cmd |-> "manager_app", op_id |-> i, address |-> a, name |-> "s"] :
                  i \in {-1, 6, 7}, a \in {"given", ""}}

ChunkLines ==
    {[cmd |-> "chunk", sub |-> s, bucket |-> b, keep_local |-> k, size |-> z, input |-> i,
      conn |-> Secure] :
        s \in {"uri", "gstreamer", "stream"}, b \in {"", "given"}, k \in BOOLEAN,
        z \in {0, 100}, i \in {"", "file", "rtsp"}}

Ingesting(c, source, codec, resize, loop) ==
    [cmd |-> "ingest", conn |-> c, source |-> source, send_codec |-> codec,
     resize |-> resize, loop |-> loop]
IngestLines ==
    {Ingesting(c, "file", "native", FALSE, FALSE) : c \in BadConnections \cup {Google}}
        \cup {Ingesting(Insecure, s, "native", FALSE, FALSE) : s \in {"no file", "rtsp", "http"}}
        \cup {Ingesting(Insecure, "file", k, r, FALSE) : k \in SendCodecs, r \in BOOLEAN}
Once == Ingesting(Insecure, "file", "native", FALSE, FALSE)
Looped == Ingesting(Insecure, "file", "native", FALSE, TRUE)

Playing(c, timeout, duration, mp4) ==
    [cmd |-> "playback", conn |-> c, timeout |-> timeout, duration |-> duration, mp4 |-> mp4]
Printing(c, timeout) == [cmd |-> "print", conn |-> c, timeout |-> timeout]
Replaying(c, timeout, position, range) ==
    [cmd |-> "replay", conn |-> c, timeout |-> timeout, position_type |-> position,
     range |-> range]
ConsumerLines ==
    {Playing(c, 15, -1, "None") : c \in BadConnections \cup {Insecure, Google}}
        \cup {Playing(Insecure, -1, 60, m) : m \in {"None", "given"}}
        \cup {Printing(c, t) : c \in BadConnections \cup {Google}, t \in {0, -1}}
        \cup {Replaying(Insecure, 5, p, r) : p \in -1 .. 3, r \in BOOLEAN}
Together == {Playing(Insecure, 15, -1, "None"), Printing(Insecure, 0)}

Scenario(commands, runs, others, killed) ==
    [commands |-> commands, runs |-> runs, others |-> others, killed |-> killed]
MCScenarios ==
    {Scenario({c}, {}, 0, FALSE) : c \in ManagerLines \cup ChunkLines}
        \cup {Scenario({c}, {}, 1, FALSE) : c \in IngestLines}
        \cup {Scenario({Looped}, {}, 1, TRUE)}
        \cup {Scenario({c}, {}, IF c.cmd = "playback" THEN 2 ELSE 3, FALSE) : c \in ConsumerLines}
        \cup {Scenario({Printing(Insecure, 0)}, {}, 4, FALSE)}
        \cup {Scenario({Once, c}, {}, 0, FALSE) : c \in Together}
        \cup {Scenario({}, {r}, IF r \in {"direct", "src"} THEN 1 ELSE 0, FALSE) :
                   r \in {"direct", "sink", "src", "packets"}}

\* Images whose rows are padded, up to an image of 21 bytes that takes 28 with its
\* padding when an int counts to 24, that have no pixels, and that GStreamer does
\* not get; buffers of other formats, too short, and too large.
Image(format, height, width) ==
    RawImage(format, height, width,
             [b \in 1 .. height * width * GetNumChannels(format) |-> b])
MCPacketValues ==
    {Image("SRGB", h, w) : h \in {1, 2}, w \in {1, 2, 4}}
        \cup {Image("SRGB", 7, 1), Image("SRGB", 0, 2), Image("UNKNOWN", 1, 2), Eos(<<1>>),
              GstreamerBuffer(About("image/jpeg", "none", 0, 0), <<1>>),
              GstreamerBuffer(About("video/x-raw", "none", 1, 1), <<1, 2>>),
              GstreamerBuffer(About("video/x-raw", "I420", 1, 1), <<1, 2>>),
              GstreamerBuffer(About("video/x-raw", "GRAY8", 1, 1), <<1, 0, 0, 0>>),
              GstreamerBuffer(About("video/x-raw", "RGB", 1, 1), <<1, 2>>),
              GstreamerBuffer(About("video/x-raw", "RGB", 3, 3), <<1, 2>>)}
        \cup {Value(T, Nothing, <<1>>) : T \in {"JpegFrame", "string"}}
        \cup {Value(T, About(T, "none", 0, 0), <<1>>) : T \in Messages}

\* A packet of a type, with a descriptor and a payload that need not fit it.
Strange(type_id, of, about, payload) ==
    [header |-> [EmptyHeader EXCEPT !.type_id = type_id, !.descriptor = Descriptor(of, about)],
     payload |-> payload]
MCStrangePackets ==
    {EmptyPacket,
     Strange("RAW_IMAGE", "RAW_IMAGE", About("none", "SRGB", 1, 1), <<1, 2>>),
     Strange("RAW_IMAGE", "RAW_IMAGE", About("none", "SRGB", -1, 1), <<>>),
     Strange("RAW_IMAGE", "RAW_IMAGE", About("none", "SRGB", 3, 3), <<1>>),
     Strange("RAW_IMAGE", "STRING", Nothing, <<1>>),
     Strange("STRING", "CONTROL_SIGNAL", About("EOS", "none", 0, 0), <<1>>),
     Strange("JPEG", "nothing", Nothing, <<>>),
     Strange("CONTROL_SIGNAL", "nothing", Nothing, <<1>>),
     Strange("CONTROL_SIGNAL", "CONTROL_SIGNAL", About("EOS", "none", 0, 0), Malformed),
     Strange("GSTREAMER_BUFFER", "nothing", Nothing, <<1>>),
     Strange("PROTOBUF", "PROTOBUF", About("MessageA", "text", 0, 0), <<1>>),
     Strange("PROTOBUF", "PROTOBUF", About("MessageA", "none", 0, 0), Malformed)}

MCInstalled == {"filesrc", "rtspsrc", "urisourcebin", "parsebin", "rtph264depay", "h264parse",
                "decodebin", "videoscale", "jpegenc", "videoconvert", "autovideosink",
                "x264enc", "mp4mux", "filesink"}
MCClusterPort == <<8, 0, 8, 0>>
=============================================================================
